---- MODULE Spec2Model ----
(***************************************************************************)
(* SmartPot firmware (Firmware/smart_plant_ui copy 48.py): the cooperative  *)
(* control loop run_ui with its touch handler, mode timeout, sensor poll,   *)
(* motion latch, redraw scheduling and auto-advance timer; the display      *)
(* driver's fill_rect; and the touch digitizer's get_touch.                 *)
(*                                                                         *)
(* Time is time.ticks_ms() in milliseconds.  Temperatures are kept in       *)
(* tenths of a degree Celsius so that the 0.1 tolerance is the integer 1.   *)
(* Python's None for a touch position is the empty tuple.                   *)
(***************************************************************************)
EXTENDS Integers, Sequences, FiniteSets, TLC

\* ------------------------------------------------------------------------
\* Program constants
\* ------------------------------------------------------------------------
WIDTH == 320
HEIGHT == 240
NAV_HEIGHT == 40
SENSOR_INTERVAL == 5000
MOTION_CHECK_INTERVAL == 5000
IDLE_TIMEOUT == 60000
SCREEN_DURATION == 180000
SLEEP_MS == 200
MIN_TIMEOUT_S == 5
MAX_TIMEOUT_S == 300
INIT_TIMEOUT_S == 30
INIT_TIMEOUT_MS == 30000

None == << >>

Abs(n) == IF n < 0 THEN -n ELSE n
Max(a, b) == IF a >= b THEN a ELSE b
Min(a, b) == IF a <= b THEN a ELSE b

\* time.ticks_diff(a, b) for timestamps closer than the tick period
ticks_diff(a, b) == a - b

\* ------------------------------------------------------------------------
\* State
\* ------------------------------------------------------------------------
VARIABLES
    now,                    \* the value time.ticks_ms() returns
    pc,                     \* position of run_ui in its loop body
    current_time,           \* run_ui local: ticks at the top of the iteration
    last_screen_change,     \* run_ui local
    last_touch_pos,         \* run_ui local
    touch_pos,              \* run_ui local: result of this iteration's get_touch
    current_screen,
    last_update,
    last_touch_time,
    manual_mode,
    last_drawn_screen,
    screen_needs_redraw,
    data_needs_update,
    last_light_value,
    last_motion_time,
    motion_timeout,
    motion_timeout_seconds,
    last_motion_check,
    audio_played,
    reward_played,
    i2s,                    \* TRUE: the I2S peripheral is held, FALSE: None
    last_displayed_values,
    sensor_data,
    obs,                    \* what the last step did (calls made, values read)
    call,                   \* the driver or digitizer method called, with its inputs
    bus,                    \* the pin and SPI events that call issued, in order
    ret                     \* what that call returned

loopVars == << pc, current_time, last_screen_change, last_touch_pos, touch_pos >>
uiVars == << current_screen, last_touch_time, manual_mode, last_drawn_screen,
             screen_needs_redraw >>
dataVars == << last_update, data_needs_update, last_light_value,
               last_displayed_values, sensor_data >>
motionVars == << last_motion_time, last_motion_check, audio_played, reward_played >>
timeoutVars == << motion_timeout, motion_timeout_seconds >>
callVars == << call, bus, ret >>
vars == << now, loopVars, uiVars, dataVars, motionVars, timeoutVars, i2s, obs,
          callVars >>

\* The observation record: written by every step, read only by the properties.
NoObs ==
    [ step |-> "init", handled |-> FALSE, polled |-> FALSE,
      motion |-> 0, prev_motion |-> 0, reward |-> FALSE, punish |-> FALSE,
      punish_run |-> 0, timed_out |-> FALSE, check_due |-> FALSE,
      dht_failed |-> FALSE, full |-> FALSE, partial |-> FALSE,
      advanced |-> FALSE, expired |-> FALSE, hit |-> FALSE, audio |-> FALSE,
      had_audio |-> FALSE, deinit |-> 0, blanked |-> FALSE,
      motion_at |-> 0, secs |-> 0 ]

\* ------------------------------------------------------------------------
\* SmartPlantDisplay.__init__
\* ------------------------------------------------------------------------
InitWith(starts, audio) ==
    /\ now \in starts
    /\ pc = "start"
    /\ current_time = 0
    /\ last_screen_change = 0
    /\ last_touch_pos = None
    /\ touch_pos = None
    /\ current_screen = 0
    /\ last_update = 0
    /\ last_touch_time = 0
    /\ manual_mode = FALSE
    /\ last_drawn_screen = -1
    /\ screen_needs_redraw = TRUE
    /\ data_needs_update = FALSE
    /\ last_light_value = 0
    /\ last_motion_time = now
    /\ motion_timeout = INIT_TIMEOUT_MS
    /\ motion_timeout_seconds = INIT_TIMEOUT_S
    /\ last_motion_check = 0
    /\ audio_played = FALSE
    /\ reward_played = FALSE
    /\ i2s \in audio
    /\ last_displayed_values =
           [ light |-> 0, temperature |-> 0, humidity |-> 0, plant_health |-> 0 ]
    /\ sensor_data =
           [ light |-> 750, temperature |-> 225, humidity |-> 65, plant_health |-> 85 ]
    /\ obs = NoObs
    /\ call = [ op |-> "none" ]
    /\ bus = << >>
    /\ ret = None

\* ------------------------------------------------------------------------
\* Display driver: pin and SPI events of the display bus
\* ------------------------------------------------------------------------
ILI9341_CASET == 42
ILI9341_PASET == 43
ILI9341_RAMWR == 44

Cs(level) == [ op |-> "cs", val |-> level ]
Dc(level) == [ op |-> "dc", val |-> level ]
SpiWrite(bytes) == [ op |-> "write", val |-> bytes ]

\* struct.pack(">H", v): the low 16 bits of v, high byte first (ustruct packs
\* without a range check)
PackH(v) == << (v % 65536) \div 256, v % 256 >>

\* struct.pack(">HH", a, b)
PackHH(a, b) == PackH(a) \o PackH(b)

\* struct.unpack(">H", bytes)
UnpackH(bytes) == bytes[1] * 256 + bytes[2]

write_cmd(cmd) == << Cs(0), Dc(0), SpiWrite(<< cmd >>), Cs(1) >>

write_data(data) == << Cs(0), Dc(1), SpiWrite(data), Cs(1) >>

\* variant: the payload is written without raising the data line
write_cmd_data_dc_left_low(cmd, data) ==
    << Cs(0), Dc(0), SpiWrite(<< cmd >>) >>
    \o (IF data = None THEN << >> ELSE << SpiWrite(data) >>)
    \o << Cs(1) >>

\* data is the payload as bytes, or None
write_cmd_data(cmd, data) ==
    << Cs(0), Dc(0), SpiWrite(<< cmd >>) >>
    \o (IF data = None THEN << >> ELSE << Dc(1), SpiWrite(data) >>)
    \o << Cs(1) >>

\* variant: the row range is sent before the column range
set_window_rows_first(x0, y0, x1, y1) ==
    write_cmd_data(ILI9341_PASET, PackHH(y0, y1))
    \o write_cmd_data(ILI9341_CASET, PackHH(x0, x1))
    \o write_cmd(ILI9341_RAMWR)

set_window(x0, y0, x1, y1) ==
    write_cmd_data(ILI9341_CASET, PackHH(x0, x1))
    \o write_cmd_data(ILI9341_PASET, PackHH(y0, y1))
    \o write_cmd(ILI9341_RAMWR)

ILI9341_SWRESET == 1
ILI9341_SLPOUT == 17
ILI9341_DISPON == 41

\* variant: the configuration follows the sleep-out opcode without a wait
init_no_wait_after_sleep_out(reset_wired) ==
    (IF reset_wired
     THEN << [ op |-> "reset", val |-> 0 ], [ op |-> "delay", val |-> 100 ],
             [ op |-> "reset", val |-> 1 ], [ op |-> "delay", val |-> 100 ] >>
     ELSE << >>)
    \o write_cmd(ILI9341_SWRESET) \o << [ op |-> "delay", val |-> 150 ] >>
    \o write_cmd(ILI9341_SLPOUT)
    \o write_cmd_data(203, << 57, 44, 0, 52, 2 >>)
    \o write_cmd_data(207, << 0, 193, 48 >>)
    \o write_cmd_data(192, << 35 >>)
    \o write_cmd_data(193, << 16 >>)
    \o write_cmd_data(197, << 62, 40 >>)
    \o write_cmd_data(199, << 134 >>)
    \o write_cmd_data(54, << 136 >>)
    \o write_cmd_data(58, << 85 >>)
    \o write_cmd_data(177, << 0, 24 >>)
    \o write_cmd(ILI9341_DISPON) \o << [ op |-> "delay", val |-> 100 ] >>

\* init: what it does in order, the reset line, the delay_ms calls (with the
\* milliseconds asked for) and the bus events of its commands
init(reset_wired) ==
    (IF reset_wired
     THEN << [ op |-> "reset", val |-> 0 ], [ op |-> "delay", val |-> 100 ],
             [ op |-> "reset", val |-> 1 ], [ op |-> "delay", val |-> 100 ] >>
     ELSE << >>)
    \o write_cmd(ILI9341_SWRESET) \o << [ op |-> "delay", val |-> 150 ] >>
    \o write_cmd(ILI9341_SLPOUT) \o << [ op |-> "delay", val |-> 120 ] >>
    \o write_cmd_data(203, << 57, 44, 0, 52, 2 >>)
    \o write_cmd_data(207, << 0, 193, 48 >>)
    \o write_cmd_data(192, << 35 >>)
    \o write_cmd_data(193, << 16 >>)
    \o write_cmd_data(197, << 62, 40 >>)
    \o write_cmd_data(199, << 134 >>)
    \o write_cmd_data(54, << 136 >>)
    \o write_cmd_data(58, << 85 >>)
    \o write_cmd_data(177, << 0, 24 >>)
    \o write_cmd(ILI9341_DISPON) \o << [ op |-> "delay", val |-> 100 ] >>

\* fill_rect's clipping of one extent: only the far edge is tested
ClipExtent(origin, extent, limit) ==
    IF origin + extent > limit THEN limit - origin ELSE extent

\* for _ in range(n): self.spi.write(pixel_data)
PixelRun(n, pixel_data) == [ i \in 1..Max(0, n) |-> SpiWrite(pixel_data) ]

\* variant: the pixel count is taken from the extents as given, before clipping
fill_rect_count_unclipped(x, y, w, h, color) ==
    LET cw == ClipExtent(x, w, WIDTH)
        ch == ClipExtent(y, h, HEIGHT)
    IN  set_window(x, y, x + cw - 1, y + ch - 1)
        \o << Cs(0), Dc(1) >>
        \o PixelRun(w * h, PackH(color))
        \o << Cs(1) >>

fill_rect(x, y, w, h, color) ==
    LET cw == ClipExtent(x, w, WIDTH)
        ch == ClipExtent(y, h, HEIGHT)
    IN  set_window(x, y, x + cw - 1, y + ch - 1)
        \o << Cs(0), Dc(1) >>
        \o PixelRun(cw * ch, PackH(color))
        \o << Cs(1) >>

\* variant: the coordinates are not tested
pixel_unchecked(x, y, color) ==
    set_window(x, y, x, y) \o write_data(PackH(color))

pixel(x, y, color) ==
    IF 0 <= x /\ x < WIDTH /\ 0 <= y /\ y < HEIGHT
    THEN set_window(x, y, x, y) \o write_data(PackH(color))
    ELSE << >>

\* ------------------------------------------------------------------------
\* color565
\* ------------------------------------------------------------------------
\* a & b and a | b on non-negative integers, bit by bit
RECURSIVE BitAnd(_, _)
BitAnd(a, b) ==
    IF a = 0 \/ b = 0 THEN 0
    ELSE (a % 2) * (b % 2) + 2 * BitAnd(a \div 2, b \div 2)

RECURSIVE BitOr(_, _)
BitOr(a, b) ==
    IF a = 0 THEN b
    ELSE IF b = 0 THEN a
    ELSE Max(a % 2, b % 2) + 2 * BitOr(a \div 2, b \div 2)

\* a << n and a >> n
ShiftLeft(a, n) == a * 2 ^ n
ShiftRight(a, n) == a \div 2 ^ n

\* variant: green is masked to five bits like red
color565_green_five_bits(r, g, b) ==
    BitOr(BitOr(ShiftLeft(BitAnd(r, 248), 8), ShiftLeft(BitAnd(g, 248), 3)),
          ShiftRight(b, 3))

\* (r & 0xf8) << 8 | (g & 0xfc) << 3 | b >> 3
color565(r, g, b) ==
    BitOr(BitOr(ShiftLeft(BitAnd(r, 248), 8), ShiftLeft(BitAnd(g, 252), 3)),
          ShiftRight(b, 3))

\* ------------------------------------------------------------------------
\* Widgets: draw_progress_bar
\* ------------------------------------------------------------------------
BLACK == 0
BLUE_LIGHT == 15743
GRAY_DARK == 31727

RECURSIVE GCD(_, _)
GCD(a, b) == IF b = 0 THEN a ELSE GCD(b, a % b)

RECURSIVE IsPowerOfTwo(_)
IsPowerOfTwo(n) == IF n = 1 THEN TRUE ELSE n % 2 = 0 /\ IsPowerOfTwo(n \div 2)

\* value / max_value is a binary float: it is the exact quotient only when the
\* reduced denominator is a power of two
QuotientExact(value, max_value) ==
    IsPowerOfTwo(max_value \div GCD(value, max_value))

\* a draw_rounded_rect call as issued to the display
RoundedRect(x, y, w, h, radius, color) ==
    [ op |-> "draw_rounded_rect", val |-> << x, y, w, h, radius, color >> ]

\* variant: the inset of 4 is left out of the width
ProgressWidths_no_inset(value, max_value, w) ==
    { (value * w) \div max_value }

\* The values int((value / max_value) * (w - 4)) can take, for value >= 0 and
\* max_value > 0.  The product is cut towards zero.  Where the exact product
\* is a whole number and the quotient is a rounded float, the computed product
\* may lie just inside that number, and cutting it gives the number next to
\* it towards zero; which of the two comes out depends on the float format of
\* the build.  Elsewhere the exact product is at least 1 / max_value away from
\* a whole number, far more than the rounding error.
ProgressWidths(value, max_value, w) ==
    LET product == value * (w - 4)
        cut == IF product >= 0 THEN product \div max_value
               ELSE -((-product) \div max_value)
        inward == IF product >= 0 THEN cut - 1 ELSE cut + 1
    IN  IF product % max_value = 0 /\ cut # 0 /\ ~QuotientExact(value, max_value)
        THEN { cut, inward }
        ELSE { cut }

\* draw_progress_bar once the width progress_w has been computed
draw_progress_bar(x, y, w, h, progress_w, bg_color, fg_color) ==
    << RoundedRect(x, y, w, h, 3, bg_color) >>
    \o IF progress_w > 0
       THEN << RoundedRect(x + 2, y + 2, progress_w, h - 4, 2, fg_color) >>
       ELSE << >>

\* ------------------------------------------------------------------------
\* Text: draw_simple_text and draw_simple_text_2x
\* ------------------------------------------------------------------------
\* text.upper() on one character, for the characters of the texts drawn here
Upper(ch) == IF ch = "t" THEN "T" ELSE ch

\* the font table, rows top to bottom: the glyphs of T, Y, 1 and - out of the
\* 32 of the table, which is the same in all three methods but for Y
Glyph(ch) ==
    CASE ch = "T" -> << << 1, 1, 1, 1, 1 >>, << 0, 0, 1, 0, 0 >>, << 0, 0, 1, 0, 0 >>,
                        << 0, 0, 1, 0, 0 >>, << 0, 0, 1, 0, 0 >>, << 0, 0, 1, 0, 0 >>,
                        << 0, 0, 0, 0, 0 >> >>
      [] ch = "Y" -> << << 1, 0, 0, 0, 1 >>, << 1, 0, 0, 0, 1 >>, << 0, 1, 0, 1, 0 >>,
                        << 0, 0, 1, 0, 0 >>, << 0, 0, 1, 0, 0 >>, << 0, 0, 1, 0, 0 >>,
                        << 0, 0, 0, 0, 0 >> >>
      [] ch = "1" -> << << 0, 0, 1, 0, 0 >>, << 0, 1, 1, 0, 0 >>, << 0, 0, 1, 0, 0 >>,
                        << 0, 0, 1, 0, 0 >>, << 0, 0, 1, 0, 0 >>, << 0, 1, 1, 1, 0 >>,
                        << 0, 0, 0, 0, 0 >> >>
      [] ch = "-" -> << << 0, 0, 0, 0, 0 >>, << 0, 0, 0, 0, 0 >>, << 0, 1, 1, 1, 0 >>,
                        << 0, 0, 0, 0, 0 >>, << 0, 0, 0, 0, 0 >>, << 0, 0, 0, 0, 0 >>,
                        << 0, 0, 0, 0, 0 >> >>

\* the pixel calls one glyph makes with its left edge at char_x: rows, then
\* columns, then the dx and dy of the block drawn for a set font pixel
GlyphCalls(glyph, char_x, y, scale, color) ==
    LET cells == [ n \in 1..(35 * scale * scale) |->
                     LET row == (n - 1) \div (5 * scale * scale)
                         col == ((n - 1) \div (scale * scale)) % 5
                         dx == ((n - 1) \div scale) % scale
                         dy == (n - 1) % scale
                     IN  [ set |-> glyph[row + 1][col + 1] = 1,
                           op |-> "pixel",
                           val |-> << char_x + col * scale + dx,
                                      y + row * scale + dy, color >> ] ]
        IsSet(cell) == cell.set
        chosen == SelectSeq(cells, IsSet)
    IN  [ i \in 1..Len(chosen) |-> [ op |-> "pixel", val |-> chosen[i].val ] ]

\* the loop over text.upper() from its i-th character on
RECURSIVE TextCalls(_, _, _, _, _, _, _, _)
TextCalls(font, scale, pitch, text, i, char_x, y, color) ==
    IF i > Len(text) THEN << >>
    ELSE (IF Upper(text[i]) \in font
          THEN GlyphCalls(Glyph(Upper(text[i])), char_x, y, scale, color)
          ELSE << >>)
         \o TextCalls(font, scale, pitch, text, i + 1, char_x + pitch, y, color)

\* The class body defines draw_simple_text twice; the second definition
\* replaces the first when the class is built, and it is the one every caller
\* gets: blocks of 2 x 2, 12 pixels per character, a table without Y.
draw_simple_text(x, y, text, color) ==
    TextCalls({ "T", "1", "-" }, 2, 12, text, 1, x, y, color)

draw_simple_text_2x(x, y, text, color) ==
    TextCalls({ "T", "Y", "1", "-" }, 2, 12, text, 1, x, y, color)

\* ------------------------------------------------------------------------
\* TouchController: read_touch_raw and get_touch
\* ------------------------------------------------------------------------
TOUCH_CMD_X == 144
TOUCH_CMD_Y == 208
CAL_MIN == 200
CAL_MAX == 3800
BAND_LOW == 100
BAND_HIGH == 4000
TOUCH_SAMPLES == 3

\* read_touch_raw's value for the two bytes read, given as the 16-bit word
\* result[0] << 8 | result[1]
RawValue(word) == (word \div 8) % 4096

\* variant: the touch chip-select is released by the next read only
read_touch_raw_events_cs_left_low(cmd) ==
    << [ op |-> "tcs", val |-> 1 ], [ op |-> "tcs", val |-> 0 ],
       [ op |-> "twrite", val |-> << cmd >> ], [ op |-> "tread", val |-> 2 ] >>

\* the events of one read_touch_raw(cmd) on the touch bus
read_touch_raw_events(cmd) ==
    << [ op |-> "tcs", val |-> 0 ], [ op |-> "twrite", val |-> << cmd >> ],
       [ op |-> "tread", val |-> 2 ], [ op |-> "tcs", val |-> 1 ] >>

\* variant: the band edges themselves count as valid
SampleValid_inclusive(x_raw, y_raw) ==
    x_raw >= BAND_LOW /\ y_raw >= BAND_LOW /\ x_raw <= BAND_HIGH /\ y_raw <= BAND_HIGH

\* "Gueltige Werte"
SampleValid(x_raw, y_raw) ==
    x_raw > BAND_LOW /\ y_raw > BAND_LOW /\ x_raw < BAND_HIGH /\ y_raw < BAND_HIGH

\* the sampling loop from its i-th pass on: acc = << x_sum, y_sum, valid_readings >>
RECURSIVE SampleLoop(_, _, _)
SampleLoop(words, i, acc) ==
    IF i > Len(words) THEN acc
    ELSE LET x_raw == RawValue(words[i][1])
             y_raw == RawValue(words[i][2])
         IN  SampleLoop(words, i + 1,
                        IF SampleValid(x_raw, y_raw)
                        THEN << acc[1] + x_raw, acc[2] + y_raw, acc[3] + 1 >>
                        ELSE acc)

\* int(a / b) for b > 0: the quotient cut towards zero
IntDiv(a, b) == IF a >= 0 THEN a \div b ELSE -((-a) \div b)

\* variant: the result is not clamped
ToScreen_unclamped(avg, extent) ==
    IntDiv((avg - CAL_MIN) * extent, CAL_MAX - CAL_MIN)

\* raw average to screen coordinate, clamped to [0, extent - 1]
ToScreen(avg, extent) ==
    Max(0, Min(extent - 1, IntDiv((avg - CAL_MIN) * extent, CAL_MAX - CAL_MIN)))

\* get_touch with the IRQ line reading irq and the sample words the bus returns
get_touch(irq, words) ==
    IF irq = 1 THEN None
    ELSE LET acc == SampleLoop(words, 1, << 0, 0, 0 >>)
         IN  IF acc[3] = 0 THEN None
             ELSE << ToScreen(acc[1] \div acc[3], WIDTH),
                     ToScreen(acc[2] \div acc[3], HEIGHT) >>

RECURSIVE SampleEvents(_)
SampleEvents(n) ==
    IF n = 0 THEN << >>
    ELSE read_touch_raw_events(TOUCH_CMD_X) \o read_touch_raw_events(TOUCH_CMD_Y)
         \o SampleEvents(n - 1)

\* variant: the samples are taken before the IRQ line is looked at
get_touch_events_samples_first(irq) == SampleEvents(TOUCH_SAMPLES)

get_touch_events(irq) == IF irq = 1 THEN << >> ELSE SampleEvents(TOUCH_SAMPLES)

\* the five-sample get_touch of the older build "smart_plant_ui copy 14.py":
\* read_touch_raw returns the 13-bit value unmasked, and a sample pair counts
\* when both raw values are above 100
get_touch_5(irq, words) ==
    LET RECURSIVE Loop(_, _)
        Loop(i, acc) ==
            IF i > Len(words) THEN acc
            ELSE LET x_raw == words[i][1] \div 8
                     y_raw == words[i][2] \div 8
                 IN  Loop(i + 1,
                          IF x_raw > 100 /\ y_raw > 100
                          THEN << acc[1] + x_raw, acc[2] + y_raw, acc[3] + 1 >>
                          ELSE acc)
        acc == Loop(1, << 0, 0, 0 >>)
    IN  IF irq = 1 THEN None
        ELSE IF acc[3] = 0 THEN None
        ELSE << ToScreen(acc[1] \div acc[3], WIDTH),
                ToScreen(acc[2] \div acc[3], HEIGHT) >>

\* ------------------------------------------------------------------------
\* SmartPlantDisplay.handle_touch
\* ------------------------------------------------------------------------
\* y >= nav_y: the bottom navigation bar, tested before anything else
InNavBar(y) == y >= HEIGHT - NAV_HEIGHT

NavTarget(x) == IF x < WIDTH \div 2 THEN 0 ELSE 2

\* variant: the gaps between the widgets of a row count as widget
MainWidgetTouched_no_gaps(x, y) ==
    IF 20 <= y /\ y <= 100
    THEN 10 <= x /\ x <= 300
    ELSE IF 110 <= y /\ y <= 190
         THEN 10 <= x /\ x <= 300
         ELSE FALSE

\* Main screen: the two widget rows; TRUE when the touch opens the detail screen
MainWidgetTouched(x, y) ==
    IF 20 <= y /\ y <= 100
    THEN (10 <= x /\ x <= 100) \/ (110 <= x /\ x <= 200) \/ (210 <= x /\ x <= 300)
    ELSE IF 110 <= y /\ y <= 190
         THEN (10 <= x /\ x <= 100) \/ (110 <= x /\ x <= 300)
         ELSE FALSE

PRESETS == << 15, 30, 60, 120 >>

\* the first preset button (0-based index i, button_x = 20 + i * 70) holding x
PresetsAt(x) == { i \in 0..3 : 20 + i * 70 <= x /\ x <= 20 + i * 70 + 60 }
FirstPreset(x) == CHOOSE i \in PresetsAt(x) : \A j \in PresetsAt(x) : i <= j

\* Settings screen: which control the point hits
\* settings_y = 50, fine_y = 100, preset_y = 140
SettingsControl(x, y) ==
    IF 50 <= y /\ y <= 50 + 40
    THEN IF 20 <= x /\ x <= 80 THEN "minus10"
         ELSE IF 240 <= x /\ x <= 300 THEN "plus10" ELSE "none"
    ELSE IF 100 <= y /\ y <= 100 + 30
    THEN IF 50 <= x /\ x <= 100 THEN "minus5"
         ELSE IF 220 <= x /\ x <= 270 THEN "plus5" ELSE "none"
    ELSE IF 140 <= y /\ y <= 140 + 25
    THEN IF PresetsAt(x) # {} THEN "preset" ELSE "none"
    ELSE "none"

\* variant: the decrements stop at 0 instead of 5
AdjustedSeconds_floor_zero(control, x, secs) ==
    CASE control = "minus10" -> Max(0, secs - 10)
      [] control = "plus10"  -> Min(MAX_TIMEOUT_S, secs + 10)
      [] control = "minus5"  -> Max(0, secs - 5)
      [] control = "plus5"   -> Min(MAX_TIMEOUT_S, secs + 5)
      [] control = "preset"  -> PRESETS[FirstPreset(x) + 1]
      [] OTHER               -> secs

\* the new motion_timeout_seconds after a control was touched
AdjustedSeconds(control, x, secs) ==
    CASE control = "minus10" -> Max(MIN_TIMEOUT_S, secs - 10)
      [] control = "plus10"  -> Min(MAX_TIMEOUT_S, secs + 10)
      [] control = "minus5"  -> Max(MIN_TIMEOUT_S, secs - 5)
      [] control = "plus5"   -> Min(MAX_TIMEOUT_S, secs + 5)
      [] control = "preset"  -> PRESETS[FirstPreset(x) + 1]
      [] OTHER               -> secs

\* variant: the navigation bar is tested after the regions of the screen
TouchedScreen_nav_last(scr, x, y) ==
    IF scr = 0 /\ MainWidgetTouched(x, y) THEN 1
    ELSE IF scr = 1 THEN 0
    ELSE IF InNavBar(y) THEN NavTarget(x)
    ELSE scr

\* the screen shown after the touch
TouchedScreen(scr, x, y) ==
    IF InNavBar(y) THEN NavTarget(x)
    ELSE IF scr = 0 THEN (IF MainWidgetTouched(x, y) THEN 1 ELSE 0)
    ELSE IF scr = 1 THEN 0
    ELSE scr

\* the settings control the touch adjusts ("none" outside the Settings screen,
\* and in the navigation bar)
TouchedControl(scr, x, y) ==
    IF ~InNavBar(y) /\ scr = 2 THEN SettingsControl(x, y) ELSE "none"

\* variant: manual mode is entered only by a touch that changes something
handle_touch_on_hit_only(x, y, t) ==
    LET old_screen == current_screen
        control == TouchedControl(old_screen, x, y)
        new_screen == TouchedScreen(old_screen, x, y)
        hit == control # "none" \/ old_screen # new_screen
    IN  /\ manual_mode' = (manual_mode \/ hit)
        /\ last_touch_time' = IF hit THEN t ELSE last_touch_time
        /\ current_screen' = new_screen
        /\ motion_timeout_seconds' =
               AdjustedSeconds(control, x, motion_timeout_seconds)
        /\ motion_timeout' =
               IF control = "none" THEN motion_timeout
               ELSE AdjustedSeconds(control, x, motion_timeout_seconds) * 1000
        /\ screen_needs_redraw' = (screen_needs_redraw \/ hit)

\* variant: an adjustment asks for a redraw only when it changes the value
handle_touch_redraw_on_change(x, y, t) ==
    LET old_screen == current_screen
        control == TouchedControl(old_screen, x, y)
        new_screen == TouchedScreen(old_screen, x, y)
    IN  /\ manual_mode' = TRUE
        /\ last_touch_time' = t
        /\ current_screen' = new_screen
        /\ motion_timeout_seconds' =
               AdjustedSeconds(control, x, motion_timeout_seconds)
        /\ motion_timeout' =
               IF control = "none" THEN motion_timeout
               ELSE AdjustedSeconds(control, x, motion_timeout_seconds) * 1000
        /\ screen_needs_redraw' =
               (screen_needs_redraw
                \/ AdjustedSeconds(control, x, motion_timeout_seconds)
                       # motion_timeout_seconds
                \/ old_screen # new_screen)

\* variant: a preset sets the seconds shown and not the milliseconds used
handle_touch_preset_shown_only(x, y, t) ==
    LET old_screen == current_screen
        control == TouchedControl(old_screen, x, y)
        new_screen == TouchedScreen(old_screen, x, y)
    IN  /\ manual_mode' = TRUE
        /\ last_touch_time' = t
        /\ current_screen' = new_screen
        /\ motion_timeout_seconds' =
               AdjustedSeconds(control, x, motion_timeout_seconds)
        /\ motion_timeout' =
               IF control = "none" \/ control = "preset" THEN motion_timeout
               ELSE AdjustedSeconds(control, x, motion_timeout_seconds) * 1000
        /\ screen_needs_redraw' =
               (screen_needs_redraw \/ control # "none" \/ old_screen # new_screen)

\* handle_touch(x, y) called when ticks_ms() reads t
handle_touch(x, y, t) ==
    LET old_screen == current_screen
        control == TouchedControl(old_screen, x, y)
        new_screen == TouchedScreen(old_screen, x, y)
    IN  /\ manual_mode' = TRUE
        /\ last_touch_time' = t
        /\ current_screen' = new_screen
        /\ motion_timeout_seconds' =
               AdjustedSeconds(control, x, motion_timeout_seconds)
        /\ motion_timeout' =
               IF control = "none" THEN motion_timeout
               ELSE AdjustedSeconds(control, x, motion_timeout_seconds) * 1000
        /\ screen_needs_redraw' =
               (screen_needs_redraw \/ control # "none" \/ old_screen # new_screen)

\* ------------------------------------------------------------------------
\* SmartPlantDisplay.check_auto_mode_timeout
\* ------------------------------------------------------------------------
\* variant: manual mode ends at 60 000 ms sharp
ManualModeExpired_at_limit(t) == ticks_diff(t, last_touch_time) >= IDLE_TIMEOUT

ManualModeExpired(t) == ticks_diff(t, last_touch_time) > IDLE_TIMEOUT

\* variant: manual mode ends at the first check after the touch
check_auto_mode_timeout_at_once ==
    manual_mode' = FALSE

check_auto_mode_timeout ==
    manual_mode' = IF manual_mode /\ ManualModeExpired(now) THEN FALSE ELSE manual_mode

\* ------------------------------------------------------------------------
\* SmartPlantDisplay.read_motion_sensor, called when ticks_ms() reads t and the
\* motion pin reads motion_state
\* ------------------------------------------------------------------------
RewardDue(motion_state) == motion_state = 1 /\ ~reward_played

MotionCheckDue(t) == ticks_diff(t, last_motion_check) > MOTION_CHECK_INTERVAL

\* variant: the timeout counts as passed at motion_timeout sharp
MotionTimedOut_at_limit(t) == ticks_diff(t, last_motion_time) >= motion_timeout

MotionTimedOut(t) == ticks_diff(t, last_motion_time) > motion_timeout

PunishmentDue(motion_state, t) ==
    motion_state # 1 /\ MotionCheckDue(t) /\ MotionTimedOut(t) /\ ~audio_played

\* play_reward_sound and play_punishment_sound return at once when i2s is
\* None and write their samples to it otherwise
CueWritesAudio == i2s

\* variant: the flags follow the cues only when audio is available
read_motion_sensor_needs_audio(motion_state, t) ==
    IF motion_state = 1
    THEN /\ last_motion_time' = t
         /\ audio_played' = FALSE
         /\ reward_played' = IF i2s THEN TRUE ELSE reward_played
         /\ UNCHANGED last_motion_check
    ELSE /\ reward_played' = FALSE
         /\ last_motion_check' = IF MotionCheckDue(t) THEN t ELSE last_motion_check
         /\ audio_played' =
                IF MotionCheckDue(t) /\ MotionTimedOut(t) /\ i2s
                THEN TRUE ELSE audio_played
         /\ UNCHANGED last_motion_time

\* variant: the punishment latch is never set
read_motion_sensor_no_latch(motion_state, t) ==
    IF motion_state = 1
    THEN /\ last_motion_time' = t
         /\ audio_played' = FALSE
         /\ reward_played' = TRUE
         /\ UNCHANGED last_motion_check
    ELSE /\ reward_played' = FALSE
         /\ last_motion_check' = IF MotionCheckDue(t) THEN t ELSE last_motion_check
         /\ UNCHANGED << audio_played, last_motion_time >>

\* variant: the reward flag is not cleared when motion ends
read_motion_sensor_no_rearm(motion_state, t) ==
    IF motion_state = 1
    THEN /\ last_motion_time' = t
         /\ audio_played' = FALSE
         /\ reward_played' = TRUE
         /\ UNCHANGED last_motion_check
    ELSE /\ last_motion_check' = IF MotionCheckDue(t) THEN t ELSE last_motion_check
         /\ audio_played' =
                IF MotionCheckDue(t) /\ MotionTimedOut(t) THEN TRUE ELSE audio_played
         /\ UNCHANGED << last_motion_time, reward_played >>

\* variant: the punishment latch is cleared when the timeout is no longer
\* exceeded
read_motion_sensor_rearm_in_time(motion_state, t) ==
    IF motion_state = 1
    THEN /\ last_motion_time' = t
         /\ audio_played' = FALSE
         /\ reward_played' = TRUE
         /\ UNCHANGED last_motion_check
    ELSE /\ reward_played' = FALSE
         /\ last_motion_check' = IF MotionCheckDue(t) THEN t ELSE last_motion_check
         /\ audio_played' =
                IF MotionCheckDue(t) /\ MotionTimedOut(t) THEN TRUE
                ELSE IF MotionCheckDue(t) THEN FALSE ELSE audio_played
         /\ UNCHANGED last_motion_time

read_motion_sensor(motion_state, t) ==
    IF motion_state = 1
    THEN /\ last_motion_time' = t
         /\ audio_played' = FALSE
         /\ reward_played' = TRUE
         /\ UNCHANGED last_motion_check
    ELSE /\ reward_played' = FALSE
         /\ last_motion_check' = IF MotionCheckDue(t) THEN t ELSE last_motion_check
         /\ audio_played' =
                IF MotionCheckDue(t) /\ MotionTimedOut(t) THEN TRUE ELSE audio_played
         /\ UNCHANGED last_motion_time

\* ------------------------------------------------------------------------
\* SmartPlantDisplay.update_sensor_data
\* ------------------------------------------------------------------------
LightChanged(light_value) == Abs(light_value - last_light_value) > 5

\* sensor_data after a successful DHT read (real_temp in tenths of a degree)
NewTemperature(real_temp) ==
    IF Abs(real_temp - sensor_data.temperature) > 1
    THEN real_temp ELSE sensor_data.temperature

NewHumidity(real_humidity) ==
    IF Abs(real_humidity - sensor_data.humidity) > 1
    THEN real_humidity ELSE sensor_data.humidity

\* "Pruefen ob andere Werte Update brauchen"
OtherValuesChanged(temperature, humidity) ==
    \/ Abs(temperature - last_displayed_values.temperature) > 1
    \/ Abs(humidity - last_displayed_values.humidity) > 1

\* variant: the penalties are taken off the previous score
PlantHealth_carry_over(temperature, light_value, humidity) ==
    LET health == sensor_data.plant_health
                  - (IF temperature < 180 \/ temperature > 280 THEN 15 ELSE 0)
                  - (IF light_value < 300 THEN 20 ELSE 0)
                  - (IF humidity < 40 \/ humidity > 80 THEN 15 ELSE 0)
    IN  Max(0, Min(100, health))

PlantHealth(temperature, light_value, humidity) ==
    LET health == 100
                  - (IF temperature < 180 \/ temperature > 280 THEN 15 ELSE 0)
                  - (IF light_value < 300 THEN 20 ELSE 0)
                  - (IF humidity < 40 \/ humidity > 80 THEN 15 ELSE 0)
    IN  Max(0, Min(100, health))

\* the part of update_sensor_data after the three sensor reads, with a DHT
\* reading dht = << real_temp, real_humidity >>
update_values(light_value, dht) ==
    LET temperature == NewTemperature(dht[1])
        humidity == NewHumidity(dht[2])
    IN  /\ data_needs_update' =
               (data_needs_update \/ LightChanged(light_value)
                \/ OtherValuesChanged(temperature, humidity))
        /\ sensor_data' =
               [ light |-> light_value, temperature |-> temperature,
                 humidity |-> humidity,
                 plant_health |-> PlantHealth(temperature, light_value, humidity) ]
        /\ last_light_value' = light_value

\* The same part when read_temp_humidity_sensor returned (None, None): the light
\* check has run, then the fallback branch evaluates random.uniform, and the
\* module imports no random: NameError leaves update_sensor_data.
update_values_dht_failed(light_value) ==
    /\ data_needs_update' = (data_needs_update \/ LightChanged(light_value))
    /\ UNCHANGED << sensor_data, last_light_value >>

\* ------------------------------------------------------------------------
\* SmartPlantDisplay.update_display_values_only
\* ------------------------------------------------------------------------
Redrawn(field, tolerance, screens) ==
    /\ current_screen \in screens
    /\ Abs(sensor_data[field] - last_displayed_values[field]) > tolerance

update_display_values_only ==
    last_displayed_values' =
        [ temperature |->
              IF Redrawn("temperature", 1, {0, 1})
              THEN sensor_data.temperature ELSE last_displayed_values.temperature,
          humidity |->
              IF Redrawn("humidity", 1, {0})
              THEN sensor_data.humidity ELSE last_displayed_values.humidity,
          light |->
              IF Redrawn("light", 5, {0, 1})
              THEN sensor_data.light ELSE last_displayed_values.light,
          plant_health |->
              IF Redrawn("plant_health", 1, {0})
              THEN sensor_data.plant_health ELSE last_displayed_values.plant_health ]

\* ------------------------------------------------------------------------
\* SmartPlantDisplay.cleanup_audio
\* ------------------------------------------------------------------------
\* the number of i2s.deinit() calls a cleanup_audio call makes
DeinitCalls == IF i2s THEN 1 ELSE 0

\* variant: the handle is kept after deinit
cleanup_audio_keeps_handle == i2s' = i2s

cleanup_audio == i2s' = FALSE

\* SmartPlantDisplay.fill
fill(color) == fill_rect(0, 0, WIDTH, HEIGHT, color)

\* ------------------------------------------------------------------------
\* SmartPlantDisplay.run_ui, one action per step of the loop body.  env is the
\* environment of a run: the touch points get_touch may return, how long a
\* contact keeps get_touch sampling, the pin and sensor readings, how long the
\* rest of an iteration (sleep included) takes, and the last tick considered.
\* ------------------------------------------------------------------------
\* run_ui before the loop
Start ==
    /\ pc = "start"
    /\ last_screen_change' = now
    /\ last_touch_pos' = None
    /\ pc' = "touch"
    /\ obs' = [obs EXCEPT !.step = "start"]
    /\ UNCHANGED << now, current_time, touch_pos, uiVars, dataVars, motionVars,
                    timeoutVars, i2s, callVars >>

\* variant: every contact is handled, repeated or not
TouchIsNew_any_contact(pos) == pos # None

\* whether run_ui passes the polled position on to handle_touch
TouchIsNew(pos) == pos # None /\ pos # last_touch_pos

\* top of the loop body and the touch poll
TouchStep(env) ==
    /\ pc = "touch"
    /\ \E pos \in env.points, busy \in env.busy :
         LET t == IF pos = None THEN now ELSE now + busy
         IN  /\ t <= env.horizon
             /\ current_time' = now
             /\ now' = t
             /\ touch_pos' = pos
             /\ IF TouchIsNew(pos)
                THEN /\ handle_touch(pos[1], pos[2], t)
                     /\ last_touch_pos' = pos
                ELSE /\ last_touch_pos' = IF pos = None THEN None ELSE last_touch_pos
                     /\ UNCHANGED << current_screen, last_touch_time, manual_mode,
                                     screen_needs_redraw, timeoutVars >>
             /\ obs' = [obs EXCEPT !.step = "touch", !.handled = TouchIsNew(pos),
                                   !.secs = motion_timeout_seconds,
                                   !.polled = FALSE, !.reward = FALSE,
                                   !.punish = FALSE, !.timed_out = FALSE,
                                   !.check_due = FALSE, !.dht_failed = FALSE,
                                   !.full = FALSE, !.partial = FALSE,
                                   !.advanced = FALSE, !.expired = FALSE,
                                   !.audio = FALSE]
    /\ pc' = "mode"
    /\ UNCHANGED << last_screen_change, last_drawn_screen, dataVars, motionVars, i2s,
                    callVars >>

\* "Auto-Modus Timeout pruefen"
ModeStep ==
    /\ pc = "mode"
    /\ check_auto_mode_timeout
    /\ pc' = "sensors"
    /\ obs' = [obs EXCEPT !.step = "mode",
                          !.expired = (manual_mode /\ ManualModeExpired(now))]
    /\ UNCHANGED << now, current_time, last_screen_change, last_touch_pos, touch_pos,
                    current_screen, last_touch_time, last_drawn_screen,
                    screen_needs_redraw, dataVars, motionVars, timeoutVars, i2s, callVars >>

SensorPollDue == ticks_diff(current_time, last_update) > SENSOR_INTERVAL

\* "Sensordaten alle 5 Sekunden aktualisieren"
SensorStep(env) ==
    /\ pc = "sensors"
    /\ IF SensorPollDue
       THEN \E light_value \in env.lights, dht \in env.dht, motion_state \in env.motions :
              /\ read_motion_sensor(motion_state, now)
              /\ obs' = [obs EXCEPT !.step = "sensors", !.polled = TRUE,
                            !.motion = motion_state, !.prev_motion = obs.motion,
                            !.reward = RewardDue(motion_state),
                            !.punish = PunishmentDue(motion_state, now),
                            !.punish_run =
                                IF motion_state = 1 THEN 0
                                ELSE IF PunishmentDue(motion_state, now)
                                     THEN obs.punish_run + 1 ELSE obs.punish_run,
                            !.timed_out = MotionTimedOut(now),
                            !.motion_at =
                                IF motion_state = 1 THEN now ELSE obs.motion_at,
                            !.check_due = MotionCheckDue(now),
                            !.audio = ((RewardDue(motion_state)
                                        \/ PunishmentDue(motion_state, now))
                                       /\ CueWritesAudio),
                            !.dht_failed = (dht = None)]
              /\ IF dht = None
                 THEN /\ update_values_dht_failed(light_value)
                      /\ cleanup_audio
                      /\ pc' = "crashed"
                      /\ UNCHANGED << last_update, last_displayed_values >>
                 ELSE /\ update_values(light_value, dht)
                      /\ last_update' = current_time
                      /\ pc' = "redraw"
                      /\ UNCHANGED << i2s, last_displayed_values >>
       ELSE /\ pc' = "redraw"
            /\ obs' = [obs EXCEPT !.step = "sensors"]
            /\ UNCHANGED << dataVars, motionVars, i2s >>
    /\ UNCHANGED << now, current_time, last_screen_change, last_touch_pos, touch_pos,
                    uiVars, timeoutVars, callVars >>

\* variant: changed sensor data forces a full redraw too
FullRedrawDue_on_data ==
    screen_needs_redraw \/ last_drawn_screen # current_screen \/ data_needs_update

FullRedrawDue == screen_needs_redraw \/ last_drawn_screen # current_screen

\* variant: the full redraw does not record which screen it drew
full_redraw_keeps_drawn_screen ==
    /\ last_displayed_values' =
           [ key \in DOMAIN last_displayed_values |-> sensor_data[key] ]
    /\ last_drawn_screen' = last_drawn_screen
    /\ screen_needs_redraw' = FALSE
    /\ data_needs_update' = FALSE

\* variant: the full redraw leaves the data flag for the next iteration
full_redraw_keeps_data_flag ==
    /\ last_displayed_values' =
           [ key \in DOMAIN last_displayed_values |-> sensor_data[key] ]
    /\ last_drawn_screen' = current_screen
    /\ screen_needs_redraw' = FALSE
    /\ data_needs_update' = data_needs_update

\* "Angezeigte Werte zuruecksetzen nach kompletter Neuzeichnung"
full_redraw ==
    /\ last_displayed_values' =
           [ key \in DOMAIN last_displayed_values |-> sensor_data[key] ]
    /\ last_drawn_screen' = current_screen
    /\ screen_needs_redraw' = FALSE
    /\ data_needs_update' = FALSE

partial_redraw ==
    /\ update_display_values_only
    /\ data_needs_update' = FALSE
    /\ UNCHANGED << last_drawn_screen, screen_needs_redraw >>

\* the redraw decision and its execution
redraw ==
    IF FullRedrawDue
    THEN /\ full_redraw
         /\ obs' = [obs EXCEPT !.step = "redraw", !.full = TRUE, !.partial = FALSE]
    ELSE IF data_needs_update
    THEN /\ partial_redraw
         /\ obs' = [obs EXCEPT !.step = "redraw", !.full = FALSE, !.partial = TRUE]
    ELSE /\ obs' = [obs EXCEPT !.step = "redraw", !.full = FALSE, !.partial = FALSE]
         /\ UNCHANGED << last_displayed_values, last_drawn_screen,
                         screen_needs_redraw, data_needs_update >>

RedrawStep ==
    /\ pc = "redraw"
    /\ redraw
    /\ pc' = "advance"
    /\ UNCHANGED << now, current_time, last_screen_change, last_touch_pos, touch_pos,
                    current_screen, last_touch_time, manual_mode, last_update,
                    last_light_value, sensor_data, motionVars, timeoutVars, i2s, callVars >>

\* variant: the timer ignores manual mode
AutoAdvanceDue_any_mode ==
    ticks_diff(current_time, last_screen_change) > SCREEN_DURATION

AutoAdvanceDue ==
    ~manual_mode /\ ticks_diff(current_time, last_screen_change) > SCREEN_DURATION

\* variant: the timer steps through all three screens
AutoAdvanceTarget_cycle(scr) == (scr + 1) % 3

AutoAdvanceTarget(scr) == IF scr = 0 THEN 2 ELSE 0

\* variant: the timer draws the screen it switched to at once
AdvanceStep_draws_at_once ==
    /\ pc = "advance"
    /\ IF AutoAdvanceDue
       THEN /\ current_screen' = AutoAdvanceTarget(current_screen)
            /\ last_screen_change' = current_time
            /\ last_drawn_screen' = AutoAdvanceTarget(current_screen)
            /\ screen_needs_redraw' = FALSE
            /\ obs' = [obs EXCEPT !.step = "advance", !.advanced = TRUE]
       ELSE /\ obs' = [obs EXCEPT !.step = "advance"]
            /\ UNCHANGED << current_screen, last_screen_change, last_drawn_screen,
                            screen_needs_redraw >>
    /\ pc' = "sleep"
    /\ UNCHANGED << now, current_time, last_touch_pos, touch_pos, last_touch_time,
                    manual_mode, dataVars, motionVars, timeoutVars, i2s, callVars >>

\* "Screen nur im Auto-Modus automatisch wechseln"
AdvanceStep ==
    /\ pc = "advance"
    /\ IF AutoAdvanceDue
       THEN /\ current_screen' = AutoAdvanceTarget(current_screen)
            /\ last_screen_change' = current_time
            /\ screen_needs_redraw' =
                   (screen_needs_redraw
                    \/ current_screen # AutoAdvanceTarget(current_screen))
            /\ obs' = [obs EXCEPT !.step = "advance", !.advanced = TRUE]
       ELSE /\ obs' = [obs EXCEPT !.step = "advance"]
            /\ UNCHANGED << current_screen, last_screen_change, screen_needs_redraw >>
    /\ pc' = "sleep"
    /\ UNCHANGED << now, current_time, last_touch_pos, touch_pos, last_touch_time,
                    manual_mode, last_drawn_screen, dataVars, motionVars,
                    timeoutVars, i2s, callVars >>

\* time.sleep(0.2) and whatever else the iteration took
SleepStep(env) ==
    /\ pc = "sleep"
    /\ \E d \in env.sleeps :
         /\ d >= SLEEP_MS
         /\ now + d <= env.horizon
         /\ now' = now + d
    /\ pc' = "touch"
    /\ obs' = [obs EXCEPT !.step = "sleep"]
    /\ UNCHANGED << current_time, last_screen_change, last_touch_pos, touch_pos,
                    uiVars, dataVars, motionVars, timeoutVars, i2s, callVars >>

\* ------------------------------------------------------------------------
\* KeyboardInterrupt: raised at any point of the loop body, handled in run_ui
\* and then in main
\* ------------------------------------------------------------------------
LoopPositions == { "touch", "mode", "sensors", "redraw", "advance", "sleep" }

\* the interrupt arrives: the statement being executed raises KeyboardInterrupt
Interrupt ==
    /\ pc \in LoopPositions
    /\ pc' = "interrupted"
    /\ obs' = [obs EXCEPT !.step = "interrupt", !.had_audio = i2s]
    /\ UNCHANGED << now, current_time, last_screen_change, last_touch_pos, touch_pos,
                    uiVars, dataVars, motionVars, timeoutVars, i2s, callVars >>

\* run_ui: except KeyboardInterrupt: cleanup_audio(), raise
RunUiInterrupted ==
    /\ pc = "interrupted"
    /\ cleanup_audio
    /\ pc' = "raised"
    /\ obs' = [obs EXCEPT !.step = "cleanup", !.deinit = obs.deinit + DeinitCalls]
    /\ UNCHANGED << now, current_time, last_screen_change, last_touch_pos, touch_pos,
                    uiVars, dataVars, motionVars, timeoutVars, callVars >>

\* main: except KeyboardInterrupt: cleanup_audio(), fill(BLACK).  The fill is
\* recorded as the call made; its 76 800 pixel writes are those of
\* fill(BLACK) and are not copied into the state.
MainInterrupted ==
    /\ pc = "raised"
    /\ cleanup_audio
    /\ pc' = "stopped"
    /\ obs' = [obs EXCEPT !.step = "blank", !.deinit = obs.deinit + DeinitCalls,
                          !.blanked = TRUE]
    /\ call' = [ op |-> "fill", color |-> BLACK ]
    /\ UNCHANGED << now, current_time, last_screen_change, last_touch_pos, touch_pos,
                    uiVars, dataVars, motionVars, timeoutVars, bus, ret >>

\* ------------------------------------------------------------------------
\* Specifications: the loop under an environment
\* ------------------------------------------------------------------------
MaxTime == 200000

\* touch points: the first Main widget (on Settings: the -10 button), the
\* Settings tab of the navigation bar, a corner point outside every control
\* of the Main and Settings screens, no contact
EnvMain ==
    [ points |-> { None, << 50, 60 >>, << 200, 220 >>, << 5, 5 >> },
      busy |-> { 0 },
      sleeps |-> { 5000, 20000 },
      lights |-> { 750 },
      dht |-> { << 220, 65 >> },
      motions |-> { 0 },
      horizon |-> MaxTime ]

Init == InitWith({ 0 }, { TRUE })

Next ==
    \/ Start
    \/ TouchStep(EnvMain)
    \/ ModeStep
    \/ SensorStep(EnvMain)
    \/ RedrawStep
    \/ AdvanceStep
    \/ SleepStep(EnvMain)

Spec == Init /\ [][Next]_vars

\* The motion latch: the pin reads 0 or 1 at every poll, a contact keeps
\* get_touch busy for its 18 one-millisecond delays (6 reads of 3 delays), and
\* an iteration that neither polls nor draws is folded into the sleep.
MaxMotionTime == 45000

EnvMotion ==
    [ points |-> { None, << 200, 220 >> },
      busy |-> { 18 },
      sleeps |-> { 5000 },
      lights |-> { 750 },
      dht |-> { << 220, 65 >> },
      motions |-> { 0, 1 },
      horizon |-> MaxMotionTime ]

NextMotion ==
    \/ Start
    \/ TouchStep(EnvMotion)
    \/ ModeStep
    \/ SensorStep(EnvMotion)
    \/ RedrawStep
    \/ AdvanceStep
    \/ SleepStep(EnvMotion)

SpecMotion == Init /\ [][NextMotion]_vars

\* The auto-advance timer: long iterations, so that the timer expires several
\* times, with touches on a Main widget and on the Settings tab in between.
MaxAdvanceTime == 600000

EnvAdvance ==
    [ points |-> { None, << 50, 60 >>, << 200, 220 >> },
      busy |-> { 0 },
      sleeps |-> { 40000, 100000 },
      lights |-> { 750 },
      dht |-> { << 220, 65 >> },
      motions |-> { 0 },
      horizon |-> MaxAdvanceTime ]

NextAdvance ==
    \/ Start
    \/ TouchStep(EnvAdvance)
    \/ ModeStep
    \/ SensorStep(EnvAdvance)
    \/ RedrawStep
    \/ AdvanceStep
    \/ SleepStep(EnvAdvance)

SpecAdvance == Init /\ [][NextAdvance]_vars

\* The motion latch while the timeout is being adjusted: touches on the
\* Settings tab and on the -10 and +10 buttons (on the Main screen the same
\* points open the Detail screen) between polls that read 0 or 1.
EnvTimeout ==
    [ points |-> { None, << 200, 220 >>, << 50, 60 >>, << 250, 60 >> },
      busy |-> { 18 },
      sleeps |-> { 5000 },
      lights |-> { 750 },
      dht |-> { << 220, 65 >> },
      motions |-> { 0, 1 },
      horizon |-> MaxMotionTime ]

NextTimeout ==
    \/ Start
    \/ TouchStep(EnvTimeout)
    \/ ModeStep
    \/ SensorStep(EnvTimeout)
    \/ RedrawStep
    \/ AdvanceStep
    \/ SleepStep(EnvTimeout)

SpecTimeout == Init /\ [][NextTimeout]_vars

\* The Settings screen in use: touches on both tabs of the navigation bar (its
\* top row and the two columns where the tabs meet included), on a point just
\* above the bar and on each of the eight adjustment controls, in iterations
\* with and without a sensor poll, with DHT reads that succeed or fail.
MaxSettingsTime == 7000

EnvSettings ==
    [ points |-> { None, << 200, 220 >>, << 100, 220 >>, << 159, 200 >>,
                   << 160, 239 >>, << 160, 199 >>, << 50, 60 >>, << 250, 60 >>,
                   << 60, 110 >>, << 230, 110 >>, << 30, 150 >>, << 100, 150 >>,
                   << 170, 150 >>, << 240, 150 >> },
      busy |-> { 18 },
      sleeps |-> { 1500, 4000 },
      lights |-> { 750 },
      dht |-> { << 220, 65 >>, None },
      motions |-> { 0 },
      horizon |-> MaxSettingsTime ]

NextSettings ==
    \/ Start
    \/ TouchStep(EnvSettings)
    \/ ModeStep
    \/ SensorStep(EnvSettings)
    \/ RedrawStep
    \/ AdvanceStep
    \/ SleepStep(EnvSettings)

SpecSettings == Init /\ [][NextSettings]_vars

\* The motion latch when setup_audio_system failed: i2s is None from the start.
InitMute == InitWith({ 0 }, { FALSE })

SpecMute == InitMute /\ [][NextMotion]_vars

\* The loop of the motion latch, with or without audio, interrupted at any
\* point.
InitAnyAudio == InitWith({ 0 }, { TRUE, FALSE })

NextInterrupt ==
    \/ Start
    \/ TouchStep(EnvMotion)
    \/ ModeStep
    \/ SensorStep(EnvMotion)
    \/ RedrawStep
    \/ AdvanceStep
    \/ SleepStep(EnvMotion)
    \/ Interrupt
    \/ RunUiInterrupted
    \/ MainInterrupted

SpecInterrupt == InitAnyAudio /\ [][NextInterrupt]_vars

\* The sensor poll: no touch, light readings a few units apart and on both
\* sides of the health threshold of 300, DHT readings that differ or fail.
MaxDataTime == 30000

EnvData ==
    [ points |-> { None },
      busy |-> { 0 },
      sleeps |-> { 5000, 10000 },
      lights |-> { 750, 754, 758, 290, 298, 302 },
      dht |-> { << 220, 65 >>, << 230, 66 >>, << 300, 65 >>, << 300, 85 >>, None },
      motions |-> { 0 },
      horizon |-> MaxDataTime ]

NextData ==
    \/ Start
    \/ TouchStep(EnvData)
    \/ ModeStep
    \/ SensorStep(EnvData)
    \/ RedrawStep
    \/ AdvanceStep
    \/ SleepStep(EnvData)

SpecData == Init /\ [][NextData]_vars

\* handle_touch and the redraw decision as operations on the object, called in
\* any order with any point of a grid holding every edge of every hit
\* rectangle and its outer neighbour.
TouchXs ==
    { 0, 9, 10, 19, 20, 49, 50, 80, 81, 89, 90, 100, 101, 109, 110, 150, 151,
      159, 160, 200, 201, 209, 210, 219, 220, 229, 230, 239, 240, 270, 271,
      290, 291, 300, 301, 319 }

TouchYs ==
    { 0, 19, 20, 49, 50, 90, 91, 99, 100, 101, 109, 110, 130, 131, 139, 140,
      165, 166, 190, 191, 199, 200, 239 }

\* The hit rectangles << x0, x1, y0, y1 >> (edges included) of a screen, as laid
\* out by show_main_screen, show_settings_screen and
\* draw_bottom_navigation_bar; on the Detail screen every point is one.
HitRects(scr) ==
    { << 0, 159, 200, 239 >>, << 160, 319, 200, 239 >> }
    \cup
    CASE scr = 0 -> { << 10, 100, 20, 100 >>, << 110, 200, 20, 100 >>,
                      << 210, 300, 20, 100 >>, << 10, 100, 110, 190 >>,
                      << 110, 300, 110, 190 >> }
      [] scr = 1 -> { << 0, 319, 0, 199 >> }
      [] scr = 2 -> { << 20, 80, 50, 90 >>, << 240, 300, 50, 90 >>,
                      << 50, 100, 100, 130 >>, << 220, 270, 100, 130 >>,
                      << 20, 80, 140, 165 >>, << 90, 150, 140, 165 >>,
                      << 160, 220, 140, 165 >>, << 230, 290, 140, 165 >> }

InHitRegion(scr, x, y) ==
    \E r \in HitRects(scr) : r[1] <= x /\ x <= r[2] /\ r[3] <= y /\ y <= r[4]

CallHandleTouch ==
    /\ \E x \in TouchXs, y \in TouchYs :
         /\ handle_touch(x, y, now)
         /\ obs' = [obs EXCEPT !.step = "touch", !.handled = TRUE,
                               !.hit = InHitRegion(current_screen, x, y)]
    /\ UNCHANGED << now, loopVars, last_drawn_screen, dataVars, motionVars, i2s,
                    callVars >>

CallRedraw ==
    /\ redraw
    /\ UNCHANGED << now, loopVars, current_screen, last_touch_time, manual_mode,
                    last_update, last_light_value, sensor_data, motionVars,
                    timeoutVars, i2s, callVars >>

NextHandler == CallHandleTouch \/ CallRedraw

SpecHandler == Init /\ [][NextHandler]_vars

\* fill_rect called with rectangles on, across and beyond every screen edge,
\* with positive, zero and negative extents.
MaxExtent == 3

RectXs == { -1, 0, 10, 318, 319, 320 }
RectYs == { -1, 0, 10, 238, 239, 240 }
RectExtents == -1..MaxExtent

CallFillRect ==
    /\ call.op = "none"
    /\ \E x \in RectXs, y \in RectYs, w \in RectExtents, h \in RectExtents :
         /\ call' = [ op |-> "fill_rect", x |-> x, y |-> y, w |-> w, h |-> h ]
         /\ bus' = fill_rect(x, y, w, h, 65535)
         /\ ret' = None
    /\ UNCHANGED << now, loopVars, uiVars, dataVars, motionVars, timeoutVars, i2s,
                    obs >>

\* the other driver operations, with the commands and payloads set_window
\* uses, a window inside the screen, and pixels on and off the screen
DriverCommands == { ILI9341_CASET, ILI9341_PASET, ILI9341_RAMWR }
DriverPayloads == { << 0 >>, PackH(65535), PackHH(0, WIDTH - 1) }

CallWriteCmd ==
    /\ call.op = "none"
    /\ \E cmd \in DriverCommands :
         /\ call' = [ op |-> "write_cmd", cmd |-> cmd ]
         /\ bus' = write_cmd(cmd)
         /\ ret' = None
    /\ UNCHANGED << now, loopVars, uiVars, dataVars, motionVars, timeoutVars, i2s,
                    obs >>

CallWriteData ==
    /\ call.op = "none"
    /\ \E data \in DriverPayloads :
         /\ call' = [ op |-> "write_data", data |-> data ]
         /\ bus' = write_data(data)
         /\ ret' = None
    /\ UNCHANGED << now, loopVars, uiVars, dataVars, motionVars, timeoutVars, i2s,
                    obs >>

CallWriteCmdData ==
    /\ call.op = "none"
    /\ \E cmd \in DriverCommands, data \in DriverPayloads \cup { None } :
         /\ call' = [ op |-> "write_cmd_data", cmd |-> cmd, data |-> data ]
         /\ bus' = write_cmd_data(cmd, data)
         /\ ret' = None
    /\ UNCHANGED << now, loopVars, uiVars, dataVars, motionVars, timeoutVars, i2s,
                    obs >>

CallSetWindow ==
    /\ call.op = "none"
    /\ \E x0 \in { 0, 10 }, y0 \in { 0, 10 }, x1 \in { 10, 319 }, y1 \in { 10, 239 } :
         /\ call' = [ op |-> "set_window", x0 |-> x0, y0 |-> y0, x1 |-> x1, y1 |-> y1 ]
         /\ bus' = set_window(x0, y0, x1, y1)
         /\ ret' = None
    /\ UNCHANGED << now, loopVars, uiVars, dataVars, motionVars, timeoutVars, i2s,
                    obs >>

CallPixel ==
    /\ call.op = "none"
    /\ \E x \in RectXs, y \in RectYs :
         /\ call' = [ op |-> "pixel", x |-> x, y |-> y ]
         /\ bus' = pixel(x, y, 65535)
         /\ ret' = None
    /\ UNCHANGED << now, loopVars, uiVars, dataVars, motionVars, timeoutVars, i2s,
                    obs >>

NextDriver ==
    \/ CallFillRect
    \/ CallWriteCmd
    \/ CallWriteData
    \/ CallWriteCmdData
    \/ CallSetWindow
    \/ CallPixel

SpecDriver == Init /\ [][NextDriver]_vars

\* get_touch called with the IRQ line at either level and, on contact, every
\* combination of sample words whose raw values sit on and next to the edges
\* of the plausibility band: 100, 101, 2000, 3999, 4000.
SampleWords == { 800, 808, 16000, 31992, 32000 }

CallGetTouch ==
    /\ call.op = "none"
    /\ \E irq \in { 0, 1 } :
         \E words \in IF irq = 1 THEN { << >> }
                      ELSE [ 1..TOUCH_SAMPLES -> SampleWords \X SampleWords ] :
           /\ call' = [ op |-> "get_touch", irq |-> irq, words |-> words ]
           /\ bus' = get_touch_events(irq)
           /\ ret' = get_touch(irq, words)
    /\ UNCHANGED << now, loopVars, uiVars, dataVars, motionVars, timeoutVars, i2s,
                    obs >>

NextTouch == CallGetTouch

SpecTouch == Init /\ [][NextTouch]_vars

\* color565 called with channel values on both sides of every bit the
\* encoding drops or keeps.
ColorLevels == { 0, 1, 3, 4, 7, 8, 15, 16, 127, 128, 247, 248, 251, 252, 254, 255 }

CallColor565 ==
    /\ call.op = "none"
    /\ \E r \in ColorLevels, g \in ColorLevels, b \in ColorLevels :
         /\ call' = [ op |-> "color565", r |-> r, g |-> g, b |-> b ]
         /\ ret' = color565(r, g, b)
    /\ UNCHANGED << now, loopVars, uiVars, dataVars, motionVars, timeoutVars, i2s,
                    obs, bus >>

NextColor == CallColor565

SpecColor == Init /\ [][NextColor]_vars

\* draw_progress_bar called with the bars of the screens (widths 150, 180),
\* bars of width 104 and 54 whose inner width divides evenly, and bars too
\* narrow for a foreground; values from 0 to max_value and one beyond it.
BarWidths == { 3, 4, 5, 54, 104, 150, 180 }

BarValues(max_value) ==
    IF max_value = 100 THEN (0..100) \cup { 120 }
    ELSE { 0, 1, 250, 500, 530, 999, 1000, 1200 }

CallDrawProgressBar ==
    /\ call.op = "none"
    /\ \E x \in { 70, 120 }, h \in { 20, 25 }, w \in BarWidths, max_value \in { 100, 1000 } :
         \E value \in BarValues(max_value) :
           \E progress_w \in ProgressWidths(value, max_value, w) :
             /\ call' = [ op |-> "draw_progress_bar", x |-> x, y |-> 30, w |-> w,
                          h |-> h, value |-> value, max_value |-> max_value ]
             /\ bus' = draw_progress_bar(x, 30, w, h, progress_w, GRAY_DARK, BLUE_LIGHT)
             /\ ret' = None
    /\ UNCHANGED << now, loopVars, uiVars, dataVars, motionVars, timeoutVars, i2s,
                    obs >>

NextBar == CallDrawProgressBar

SpecBar == Init /\ [][NextBar]_vars

\* The five-sample get_touch called with the IRQ line at either level and, on
\* contact, five sample pairs of words, each with raw values << x, y >> of
\* << 2000, 2000 >>, << 1000, 3000 >>, << 100, 2000 >>, << 4000, 2000 >> or
\* << 2000, 8191 >>.
CallGetTouch5 ==
    /\ call.op = "none"
    /\ \E irq \in { 0, 1 } :
         \E words \in IF irq = 1 THEN { << >> }
                      ELSE [ 1..5 -> { << 16000, 16000 >>, << 8000, 24000 >>,
                                       << 800, 16000 >>, << 32000, 16000 >>,
                                       << 16000, 65528 >> } ] :
           /\ call' = [ op |-> "get_touch_5", irq |-> irq, words |-> words ]
           /\ bus' = IF irq = 1 THEN << >> ELSE SampleEvents(5)
           /\ ret' = get_touch_5(irq, words)
    /\ UNCHANGED << now, loopVars, uiVars, dataVars, motionVars, timeoutVars, i2s,
                    obs >>

NextTouch5 == CallGetTouch5

SpecTouch5 == Init /\ [][NextTouch5]_vars

\* The calibration step: two get_touch calls in a row, each with three equal
\* sample pairs so that the averaged raw value on both axes is the value
\* chosen; the values lie in the plausibility band, dense around its edges and
\* around cal_min and cal_max.
CalRaws ==
    (101..112) \cup (195..215) \cup { 1000, 2000, 2001, 3000 }
    \cup (3790..3805) \cup (3990..3999)

CalWords(raw) == [ i \in 1..TOUCH_SAMPLES |-> << raw * 8, raw * 8 >> ]

CallGetTouchAgain ==
    /\ IF call.op = "none" THEN TRUE ELSE call.before = None
    /\ \E raw \in CalRaws :
         /\ call' = [ op |-> "get_touch", irq |-> 0, words |-> CalWords(raw),
                      before |-> IF call.op = "none" THEN None
                                 ELSE << call.words, ret >> ]
         /\ bus' = get_touch_events(0)
         /\ ret' = get_touch(0, CalWords(raw))
    /\ UNCHANGED << now, loopVars, uiVars, dataVars, motionVars, timeoutVars, i2s,
                    obs >>

NextCal == CallGetTouchAgain

SpecCal == Init /\ [][NextCal]_vars

\* The text methods called with every text of up to MaxTextLen characters
\* out of: glyphs of the table, a lower-case letter, Y, and K, which no table
\* holds; at the left of the screen and close to its right edge.
MaxTextLen == 2

Texts ==
    UNION { [ 1..n -> { "T", "t", "Y", "1", "-", "K" } ] : n \in 1..MaxTextLen }

CallDrawSimpleText ==
    /\ call.op = "none"
    /\ \E x \in { 15, 310 }, text \in Texts :
         /\ call' = [ op |-> "draw_simple_text", x |-> x, y |-> 10, text |-> text ]
         /\ bus' = draw_simple_text(x, 10, text, 65535)
         /\ ret' = None
    /\ UNCHANGED << now, loopVars, uiVars, dataVars, motionVars, timeoutVars, i2s,
                    obs >>

CallDrawSimpleText2x ==
    /\ call.op = "none"
    /\ \E x \in { 15, 310 }, text \in Texts :
         /\ call' = [ op |-> "draw_simple_text_2x", x |-> x, y |-> 10, text |-> text ]
         /\ bus' = draw_simple_text_2x(x, 10, text, 65535)
         /\ ret' = None
    /\ UNCHANGED << now, loopVars, uiVars, dataVars, motionVars, timeoutVars, i2s,
                    obs >>

NextText == CallDrawSimpleText \/ CallDrawSimpleText2x

SpecText == Init /\ [][NextText]_vars

\* init running event by event, on a display with or without a reset line.
\* time.sleep_ms returns after the time asked for or up to MaxOversleep ms
\* later; the delay event on the bus record holds the time it took.
MaxOversleep == 1

CallInit ==
    /\ call.op = "none"
    /\ \E reset_wired \in BOOLEAN :
         call' = [ op |-> "init", reset |-> reset_wired, at |-> 0, done |-> FALSE ]
    /\ bus' = << >>
    /\ UNCHANGED << now, loopVars, uiVars, dataVars, motionVars, timeoutVars, i2s,
                    obs, ret >>

InitEvent ==
    /\ call.op = "init" /\ ~call.done
    /\ LET e == init(call.reset)[call.at + 1]
       IN  IF e.op = "delay"
           THEN \E took \in e.val..(e.val + MaxOversleep) :
                    /\ bus' = Append(bus, [ op |-> "delay", val |-> took ])
                    /\ now' = now + took
           ELSE /\ bus' = Append(bus, e)
                /\ now' = now
    /\ call' = [call EXCEPT !.at = call.at + 1,
                            !.done = (call.at + 1 = Len(init(call.reset)))]
    /\ UNCHANGED << loopVars, uiVars, dataVars, motionVars, timeoutVars, i2s, obs,
                    ret >>

NextInit == CallInit \/ InitEvent

SpecInit == Init /\ [][NextInit]_vars

\* The two bus users of run_ui, event by event: each iteration polls the touch
\* controller (IRQ line at either level) and then makes up to MaxLoopDraws
\* drawing calls, one after the other; the bus record starts anew with every
\* iteration.
MaxLoopDraws == 2

LoopPoll ==
    /\ IF call.op = "loop" THEN call.todo = << >> ELSE call.op = "none"
    /\ \E irq \in { 0, 1 } :
         call' = [ op |-> "loop", todo |-> get_touch_events(irq), draws |-> 0 ]
    /\ bus' = << >>
    /\ UNCHANGED << now, loopVars, uiVars, dataVars, motionVars, timeoutVars, i2s,
                    obs, ret >>

LoopDraw ==
    /\ call.op = "loop" /\ call.todo = << >> /\ call.draws < MaxLoopDraws
    /\ \E events \in { fill_rect(0, 0, 2, 1, BLUE_LIGHT),
                        fill_rect(318, 239, 3, 2, BLUE_LIGHT),
                        pixel(10, 20, BLUE_LIGHT),
                        pixel(WIDTH, 0, BLUE_LIGHT) } :
         call' = [call EXCEPT !.todo = events, !.draws = call.draws + 1]
    /\ UNCHANGED << now, loopVars, uiVars, dataVars, motionVars, timeoutVars, i2s,
                    obs, ret, bus >>

\* the next pin change or transfer of the call in progress
LoopEvent ==
    /\ call.op = "loop" /\ call.todo # << >>
    /\ bus' = Append(bus, Head(call.todo))
    /\ call' = [call EXCEPT !.todo = Tail(call.todo)]
    /\ UNCHANGED << now, loopVars, uiVars, dataVars, motionVars, timeoutVars, i2s,
                    obs, ret >>

NextLoopBus == LoopPoll \/ LoopDraw \/ LoopEvent

SpecLoopBus == Init /\ [][NextLoopBus]_vars

\* Drawing calls in a row on one display: fill_rect and pixel, the bus keeping
\* the events of all of them in order.  Rectangles at the origin and at the
\* far corner, where the extent is clipped, with empty and non-empty extents;
\* pixels on the screen and beyond its right edge.
MaxDrawCalls == 2

\* the drawing calls made so far, oldest first
DrawCalls == IF call.op = "draws" THEN call.calls ELSE << >>

DrawFillRect ==
    /\ Len(DrawCalls) < MaxDrawCalls
    /\ \E x \in { 0, 318 }, y \in { 0, 239 }, w \in 0..3, h \in 1..2 :
         /\ call' = [ op |-> "draws",
                      calls |-> Append(DrawCalls,
                                       [ op |-> "fill_rect", x |-> x, y |-> y,
                                         w |-> w, h |-> h, color |-> BLUE_LIGHT ]) ]
         /\ bus' = bus \o fill_rect(x, y, w, h, BLUE_LIGHT)
         /\ ret' = None
    /\ UNCHANGED << now, loopVars, uiVars, dataVars, motionVars, timeoutVars, i2s,
                    obs >>

DrawPixel ==
    /\ Len(DrawCalls) < MaxDrawCalls
    /\ \E x \in { 0, 318, WIDTH }, y \in { 0, 239 } :
         /\ call' = [ op |-> "draws",
                      calls |-> Append(DrawCalls,
                                       [ op |-> "pixel", x |-> x, y |-> y,
                                         w |-> 1, h |-> 1, color |-> BLUE_LIGHT ]) ]
         /\ bus' = bus \o pixel(x, y, BLUE_LIGHT)
         /\ ret' = None
    /\ UNCHANGED << now, loopVars, uiVars, dataVars, motionVars, timeoutVars, i2s,
                    obs >>

NextDraw == DrawFillRect \/ DrawPixel

SpecDraw == Init /\ [][NextDraw]_vars

\* ------------------------------------------------------------------------
\* Properties
\* ------------------------------------------------------------------------
\* the state right after a sensor poll (update_sensor_data has just run)
AfterPoll == obs.step = "sensors" /\ obs.polled

\* C1 as stated: after every poll that reads motion = 0 with more than
\* motion_timeout elapsed since the last motion, the punishment cue has been
\* played exactly once in the current no-motion period.
C1_PunishedExactlyOnce ==
    (AfterPoll /\ obs.motion = 0 /\ obs.timed_out) => obs.punish_run = 1

\* C1 amended: the punishment cue is played at most once per no-motion period
\* (a second one needs a poll that read motion = 1 in between), and it has been
\* played exactly once after any poll that reads 0 past the timeout and comes
\* more than 5000 ms after the previous timeout check.
C1_PunishedAtMostOnce ==
    /\ obs.punish_run <= 1
    /\ (AfterPoll /\ obs.motion = 0 /\ obs.timed_out /\ obs.check_due)
           => obs.punish_run = 1

\* a later poll of a no-motion period that was punished before: nothing played
C1_Witness ==
    /\ AfterPoll /\ obs.motion = 0 /\ obs.timed_out /\ obs.check_due
    /\ ~obs.punish /\ obs.punish_run = 1

\* C2: the reward cue is played at a poll exactly when that poll reads motion = 1
\* and the poll before it (or the start) read no motion; every poll that reads 1
\* sets last_motion_time to the poll time and clears audio_played.
C2_RewardOnRisingEdge ==
    AfterPoll =>
        /\ obs.reward = (obs.motion = 1 /\ obs.prev_motion = 0)
        /\ obs.motion = 1 => (last_motion_time = now /\ ~audio_played)

\* a run of motion = 1 polls after a punished no-motion period: its first poll
\* has cleared the latch, its second poll plays nothing
C2_Witness ==
    /\ AfterPoll /\ obs.motion = 1 /\ obs.prev_motion = 1 /\ ~obs.reward
    /\ reward_played /\ last_motion_time = now /\ last_motion_time > 30000

\* C3: a manual mode that no touch renews ends at the first idle-timeout check
\* that sees more than 60 000 ms since last_touch_time (after a check that
\* leaves it on, no more than 60 000 ms have passed), it ends nowhere else and
\* not earlier, and once off it stays off until handle_touch runs again.
C3_ManualModeTimeout ==
    /\ [](obs.step = "mode" /\ manual_mode
              => ticks_diff(now, last_touch_time) <= 60000)
    /\ [][manual_mode /\ ~manual_mode'
              => pc = "mode" /\ ticks_diff(now, last_touch_time) > 60000]_vars
    /\ [][~manual_mode /\ manual_mode' => pc = "touch" /\ obs'.handled]_vars

\* the check has just switched back to automatic mode, after a check exactly
\* 60 000 ms after the touch had left manual mode on
C3_Witness ==
    /\ obs.step = "mode" /\ obs.expired /\ ~manual_mode
    /\ ticks_diff(now, last_touch_time) = 80000

\* C4: a handled touch outside every hit rectangle of the screen shown leaves
\* current_screen, motion_timeout_seconds and screen_needs_redraw as they were.
C4_MissIsNoOp ==
    [][(obs'.step = "touch" /\ obs'.handled /\ ~obs'.hit)
           => /\ current_screen' = current_screen
              /\ motion_timeout_seconds' = motion_timeout_seconds
              /\ screen_needs_redraw' = screen_needs_redraw]_vars

\* a touch that missed every control of the Settings screen, no redraw pending
C4_Witness ==
    /\ obs.step = "touch" /\ obs.handled /\ ~obs.hit
    /\ current_screen = 2 /\ ~screen_needs_redraw

\* C5: the redraw step runs a full redraw only if current_screen differs from
\* last_drawn_screen or screen_needs_redraw is set at the decision, a partial
\* update only if data_needs_update is set, and never both.
C5_RedrawClass ==
    [][pc = "redraw"
           => /\ obs'.full
                   => (current_screen # last_drawn_screen \/ screen_needs_redraw)
              /\ obs'.partial => data_needs_update
              /\ ~(obs'.full /\ obs'.partial)]_vars

\* an iteration that ran the partial update and no full redraw
C5_Witness ==
    obs.step = "redraw" /\ obs.partial /\ ~obs.full /\ last_drawn_screen = current_screen

\* C9: motion_timeout_seconds stays within [5, 300].
C9_TimeoutInRange ==
    MIN_TIMEOUT_S <= motion_timeout_seconds /\ motion_timeout_seconds <= MAX_TIMEOUT_S

\* the +10 button touched at the upper limit
C9_Witness ==
    /\ obs.step = "touch" /\ obs.handled /\ obs.hit
    /\ current_screen = 2 /\ motion_timeout_seconds = 300

\* C6: on the Main screen, after the redraw step of an iteration that polled
\* the sensors and ran no full redraw, no displayed input value differs from
\* the value last drawn by more than its tolerance (temperature 0.1, humidity
\* 1, light 5): a value that drifted further was redrawn in this iteration.
C6_DriftIsRedrawn ==
    (obs.step = "redraw" /\ obs.polled /\ ~obs.full /\ current_screen = 0)
        => /\ Abs(sensor_data.temperature - last_displayed_values.temperature) <= 1
           /\ Abs(sensor_data.humidity - last_displayed_values.humidity) <= 1
           /\ Abs(sensor_data.light - last_displayed_values.light) <= 5

\* C7: a poll whose DHT read failed leaves update_sensor_data normally, with
\* temperature within [15, 35] and humidity within [30, 90], and the loop goes
\* on to its redraw step.
C7_DhtFailureNotFatal ==
    (AfterPoll /\ obs.dht_failed)
        => /\ pc = "redraw"
           /\ 150 <= sensor_data.temperature /\ sensor_data.temperature <= 350
           /\ 30 <= sensor_data.humidity /\ sensor_data.humidity <= 90

\* the window a fill_rect call programmed: the payloads of its column and row
\* address commands
SentWindow ==
    [ x0 |-> UnpackH(SubSeq(bus[5].val, 1, 2)), x1 |-> UnpackH(SubSeq(bus[5].val, 3, 4)),
      y0 |-> UnpackH(SubSeq(bus[11].val, 1, 2)), y1 |-> UnpackH(SubSeq(bus[11].val, 3, 4)) ]

\* C8: whatever rectangle fill_rect is given, the window it sends satisfies
\* 0 <= x0 <= x1 <= 319 and 0 <= y0 <= y1 <= 239.
C8_WindowOnScreen ==
    call.op = "fill_rect"
        => /\ 0 <= SentWindow.x0 /\ SentWindow.x0 <= SentWindow.x1
           /\ SentWindow.x1 <= WIDTH - 1
           /\ 0 <= SentWindow.y0 /\ SentWindow.y0 <= SentWindow.y1
           /\ SentWindow.y1 <= HEIGHT - 1

\* the raw sample pairs of a get_touch call, and those inside the band
RawPairs == [ i \in DOMAIN call.words |->
                << RawValue(call.words[i][1]), RawValue(call.words[i][2]) >> ]
InBand(raw) == 100 < raw /\ raw < 4000
KeptPairs == { i \in DOMAIN call.words : InBand(RawPairs[i][1]) /\ InBand(RawPairs[i][2]) }

RECURSIVE SumOver(_, _)
SumOver(S, axis) ==
    IF S = {} THEN 0
    ELSE LET i == CHOOSE j \in S : TRUE
         IN  RawPairs[i][axis] + SumOver(S \ { i }, axis)

\* C10: on contact, get_touch returns the calibrated integer mean of exactly
\* the sample pairs whose two raw values lie in 100 < raw < 4000, a pair with
\* either value outside the band adding to neither sum, and None when no pair
\* is left.
C10_OutOfBandDiscarded ==
    (call.op = "get_touch" /\ call.irq = 0)
        => ret = IF KeptPairs = {} THEN None
                 ELSE << ToScreen(SumOver(KeptPairs, 1) \div Cardinality(KeptPairs), WIDTH),
                         ToScreen(SumOver(KeptPairs, 2) \div Cardinality(KeptPairs), HEIGHT) >>

\* contact signalled, all three pairs outside the band (one by its y value
\* alone), nothing returned
C10_Witness ==
    /\ call.op = "get_touch" /\ call.irq = 0
    /\ call.words = << << 800, 16000 >>, << 16000, 32000 >>, << 32000, 800 >> >>
    /\ ret = None

\* the averaged raw value of a call whose three sample pairs are equal
AveragedRaw(words) == RawValue(words[1][1])

\* C11: the calibrated point of an averaged raw value in the band lies within
\* [0, 319] x [0, 239]; raw 200 maps to 0 and raw 3800 to extent - 1 on both
\* axes; and of two calls the one with the larger averaged raw value never
\* returns the smaller coordinate.
C11_CalibrationMonotone ==
    call.op = "get_touch"
        => /\ ret[1] \in 0..(WIDTH - 1) /\ ret[2] \in 0..(HEIGHT - 1)
           /\ AveragedRaw(call.words) = 200 => ret = << 0, 0 >>
           /\ AveragedRaw(call.words) = 3800 => ret = << WIDTH - 1, HEIGHT - 1 >>
           /\ call.before # None
                  => LET earlier == call.before[2]
                     IN  AveragedRaw(call.before[1]) <= AveragedRaw(call.words)
                             => earlier[1] <= ret[1] /\ earlier[2] <= ret[2]

\* a call at cal_min followed by a call at cal_max
C11_Witness ==
    /\ call.op = "get_touch" /\ call.before # None
    /\ AveragedRaw(call.before[1]) = 200 /\ call.before[2] = << 0, 0 >>
    /\ AveragedRaw(call.words) = 3800 /\ ret = << 319, 239 >>

\* C12: after every sensor poll that update_sensor_data completed, plant_health
\* is 100 less 15 for a temperature outside [18, 28], less 20 for light below
\* 300, less 15 for humidity outside [40, 80], within [0, 100], whatever the
\* score was before: 22 / 750 / 65 scores 100, and 30 with light and humidity
\* in range scores 85.
C12_PlantHealth ==
    (AfterPoll /\ ~obs.dht_failed)
        => LET t == sensor_data.temperature
               l == sensor_data.light
               h == sensor_data.humidity
               t_ok == 180 <= t /\ t <= 280
               l_ok == l >= 300
               h_ok == 40 <= h /\ h <= 80
               score == 100 - (IF t_ok THEN 0 ELSE 15) - (IF l_ok THEN 0 ELSE 20)
                            - (IF h_ok THEN 0 ELSE 15)
           IN  /\ sensor_data.plant_health = score
               /\ 0 <= sensor_data.plant_health /\ sensor_data.plant_health <= 100
               /\ (t = 220 /\ l = 750 /\ h = 65) => sensor_data.plant_health = 100
               /\ (t = 300 /\ l_ok /\ h_ok) => sensor_data.plant_health = 85

\* a poll that read 30 degrees, light 750 and humidity 65 after polls that
\* had scored 100
C12_Witness ==
    /\ AfterPoll /\ ~obs.dht_failed
    /\ sensor_data.temperature = 300 /\ sensor_data.light = 750
    /\ sensor_data.humidity = 65 /\ sensor_data.plant_health = 85
    /\ last_displayed_values.plant_health = 100

C14_Color565Fields ==
    call.op = "color565"
        => /\ ret \in 0..65535
           /\ ret \div 2048 = call.r \div 8
           /\ (ret \div 32) % 64 = call.g \div 4
           /\ ret % 32 = call.b \div 8
           /\ (call.r = 255 /\ call.g = 0 /\ call.b = 0) => ret = 63488
           /\ (call.r = 0 /\ call.g = 255 /\ call.b = 0) => ret = 2016
           /\ (call.r = 0 /\ call.g = 0 /\ call.b = 255) => ret = 31
           /\ (call.r = 255 /\ call.g = 255 /\ call.b = 255) => ret = 65535

\* pure green: all six green bits set and nothing else
C14_Witness ==
    call.op = "color565" /\ call.r = 0 /\ call.g = 255 /\ call.b = 0 /\ ret = 2016

\* C15: every handle_touch call leaves manual_mode set and last_touch_time at
\* the time of the call, on every screen and whether or not the point hits a
\* control.
C15_TouchEntersManual ==
    (obs.step = "touch" /\ obs.handled) => (manual_mode /\ last_touch_time = now)

\* a touch on the Settings screen that hits no control, after manual mode had
\* timed out
C15_Witness ==
    /\ obs.step = "touch" /\ obs.handled /\ touch_pos = << 5, 5 >>
    /\ current_screen = 2 /\ ~InHitRegion(2, 5, 5) /\ ~screen_needs_redraw
    /\ manual_mode /\ last_touch_time = now /\ now > IDLE_TIMEOUT

\* C16: current_screen changes only in a handled touch or in the auto-advance
\* step of an iteration in which manual_mode is false and more than 180 000 ms
\* lie between the top of the iteration and the previous auto-advance (or the
\* start of the loop); the auto-advance step acts under no other condition.
C16_AutoAdvance ==
    /\ [][current_screen' # current_screen
              => \/ pc = "touch" /\ obs'.handled
                 \/ /\ pc = "advance" /\ ~manual_mode
                    /\ ticks_diff(current_time, last_screen_change) > 180000]_vars
    /\ [][(pc = "advance" /\ obs'.advanced)
              => /\ ~manual_mode
                 /\ ticks_diff(current_time, last_screen_change) > 180000
                 /\ last_screen_change' = current_time]_vars

\* a second auto-advance, more than 180 000 ms after the first
C16_Witness ==
    /\ obs.step = "advance" /\ obs.advanced /\ ~manual_mode
    /\ last_screen_change > 2 * SCREEN_DURATION

\* C17: when I2S initialisation failed, i2s stays None, no step writes audio
\* data, the loop does not stop, and the latch flags follow the polls as
\* always: after a poll reward_played tells whether it read motion = 1, and
\* audio_played is cleared by a poll that read 1, set by a poll that read 0
\* past the timeout with the timeout check due, and kept otherwise.
C17_MuteKeepsLatch ==
    /\ [](/\ ~i2s /\ ~obs.audio /\ pc # "crashed"
          /\ AfterPoll => reward_played = (obs.motion = 1))
    /\ [][(obs'.step = "sensors" /\ obs'.polled)
              => audio_played' =
                     IF obs'.motion = 1 THEN FALSE
                     ELSE (audio_played \/ (obs'.check_due /\ obs'.timed_out))]_vars

\* the punishment cue was due and invoked without audio: the latch is set and
\* nothing was written
C17_Witness ==
    /\ AfterPoll /\ ~i2s /\ obs.punish /\ audio_played /\ ~obs.audio

\* C18: after a KeyboardInterrupt in the loop, i2s.deinit is called exactly
\* once if audio was available (never twice) and i2s is None from then on, the
\* display is blanked only after that and as the last thing done, and no step
\* of the loop (touch poll, sensor poll, cue, draw, timer) runs any more: apart
\* from the cleanup nothing of the object changes.
C18_InterruptCleanup ==
    /\ [](/\ obs.deinit <= 1
          /\ pc \in { "raised", "stopped" } => ~i2s
          /\ obs.blanked => pc = "stopped"
          /\ pc = "stopped"
                 => /\ obs.blanked /\ call = [ op |-> "fill", color |-> 0 ]
                    /\ obs.deinit = IF obs.had_audio THEN 1 ELSE 0)
    /\ [][(pc = "interrupted" \/ pc = "raised" \/ pc = "stopped")
              => /\ pc = "interrupted" => (pc' = "raised" /\ obs'.step = "cleanup")
                 /\ pc = "raised" => (pc' = "stopped" /\ obs'.step = "blank")
                 /\ pc # "stopped"
                 /\ [obs' EXCEPT !.step = obs.step, !.deinit = obs.deinit,
                                 !.blanked = obs.blanked] = obs
                 /\ UNCHANGED (<< now, current_time, last_screen_change,
                                  last_touch_pos, touch_pos, uiVars, dataVars,
                                  motionVars, timeoutVars, bus >>)]_vars

\* interrupted with audio available, after the punishment cue had been played:
\* one deinit, i2s None, display blanked
C18_Witness ==
    /\ pc = "stopped" /\ obs.had_audio /\ obs.deinit = 1 /\ ~i2s /\ obs.blanked
    /\ audio_played

\* C19: with the IRQ line at 1 get_touch returns None and issues nothing on
\* the touch bus: no chip-select change, no write, no read.
C19_NoContactNoTraffic ==
    (call.op = "get_touch" /\ call.irq = 1) => (ret = None /\ bus = << >>)

\* a call without contact
C19_Witness ==
    call.op = "get_touch" /\ call.irq = 1 /\ ret = None /\ Len(bus) = 0

\* what the n-th SPI write of a driver operation carries
WriteKind(op, n) ==
    CASE op = "write_cmd" -> "opcode"
      [] op = "write_data" -> "payload"
      [] op = "write_cmd_data" -> IF n = 1 THEN "opcode" ELSE "payload"
      [] OTHER -> IF n \in { 1, 3, 5 } THEN "opcode" ELSE "payload"

\* the events from the i-th on keep the framing, given the levels of CS and
\* DC before them (2: not yet driven) and the number n of writes so far
RECURSIVE Framed(_, _, _, _, _, _)
Framed(op, events, i, cs, dc, n) ==
    IF i > Len(events) THEN cs = 1
    ELSE LET e == events[i]
         IN  CASE e.op = "cs" -> Framed(op, events, i + 1, e.val, dc, n)
               [] e.op = "dc" -> Framed(op, events, i + 1, cs, e.val, n)
               [] e.op = "write" ->
                      /\ cs = 0
                      /\ dc = IF WriteKind(op, n + 1) = "opcode" THEN 0 ELSE 1
                      /\ WriteKind(op, n + 1) = "opcode" => Len(e.val) = 1
                      /\ Framed(op, events, i + 1, cs, dc, n + 1)

DriverOps ==
    { "write_cmd", "write_data", "write_cmd_data", "set_window", "fill_rect", "pixel" }

\* C20: in every driver operation each SPI write happens with CS low, an
\* opcode byte with DC low and payload or pixel bytes with DC high, and CS is
\* high when the operation returns.
C20_BusFraming ==
    call.op \in DriverOps => Framed(call.op, bus, 1, 1, 2, 0)

\* a fill_rect that streamed nine pixels after programming its window
C20_Witness ==
    /\ call.op = "fill_rect" /\ call.w = 3 /\ call.h = 3 /\ call.x = 10 /\ call.y = 10
    /\ Len(bus) = 16 + 2 + 9 + 1
    /\ bus[19] = SpiWrite(<< 255, 255 >>) /\ bus[Len(bus)] = Cs(1)

\* the chip-select frames of a bus trace: for every stretch with CS low, the
\* events between the falling and the rising edge
RECURSIVE FramesFrom(_, _, _, _, _)
FramesFrom(events, i, inside, cur, acc) ==
    IF i > Len(events) THEN acc
    ELSE LET e == events[i]
         IN  IF e = Cs(0) THEN FramesFrom(events, i + 1, TRUE, << >>, acc)
             ELSE IF e = Cs(1)
             THEN FramesFrom(events, i + 1, FALSE, << >>,
                             IF inside THEN Append(acc, cur) ELSE acc)
             ELSE FramesFrom(events, i + 1, inside, Append(cur, e), acc)

Frames(events) == FramesFrom(events, 1, FALSE, << >>, << >>)

\* a frame that carries data without an opcode: a pixel stream
IsPixelStream(frame) == frame # << >> /\ frame[1] = Dc(1)

\* a frame that carries the opcode cmd and a 4-byte payload
IsRangeCommand(frame, cmd) ==
    /\ Len(frame) = 4
    /\ frame[1] = Dc(0) /\ frame[2] = SpiWrite(<< cmd >>) /\ frame[3] = Dc(1)
    /\ frame[4].op = "write" /\ Len(frame[4].val) = 4

\* whether a drawing call reaches the bus at all, and the window it asks for
OnScreen(x, y) == 0 <= x /\ x <= 319 /\ 0 <= y /\ y <= 239
Emits(c) == c.op = "fill_rect" \/ OnScreen(c.x, c.y)
ClippedW(c) == IF c.x + c.w > 320 THEN 320 - c.x ELSE c.w
ClippedH(c) == IF c.y + c.h > 240 THEN 240 - c.y ELSE c.h
EmittingCalls == SelectSeq(DrawCalls, Emits)

\* C21: on the bus, every pixel stream of fill_rect and pixel comes right
\* after three frames of its own call and nothing else: the column-address
\* opcode 0x2A with the 4-byte big-endian pair (x0, x1), the row-address opcode
\* 0x2B with the pair (y0, y1), and the memory-write opcode 0x2C alone; this
\* holds for every call of a series, also when the call before it programmed
\* the same window.
C21_WindowBeforeStream ==
    call.op = "draws"
        => LET frames == Frames(bus)
           IN  /\ \A i \in 1..Len(frames) :
                      IsPixelStream(frames[i])
                          => /\ i > 3
                             /\ IsRangeCommand(frames[i - 3], 42)
                             /\ IsRangeCommand(frames[i - 2], 43)
                             /\ frames[i - 1] = << Dc(0), SpiWrite(<< 44 >>) >>
               /\ Len(frames) = 4 * Len(EmittingCalls)
               /\ \A j \in 1..Len(EmittingCalls) :
                      LET c == EmittingCalls[j]
                      IN  /\ frames[4 * j - 3][4].val
                                 = PackHH(c.x, c.x + ClippedW(c) - 1)
                          /\ frames[4 * j - 2][4].val
                                 = PackHH(c.y, c.y + ClippedH(c) - 1)
                          /\ IsPixelStream(frames[4 * j])

\* the same rectangle filled twice in a row: the second call sends the whole
\* window sequence again before its pixels
C21_Witness ==
    /\ call.op = "draws" /\ Len(DrawCalls) = 2
    /\ DrawCalls[1] = DrawCalls[2] /\ DrawCalls[1].op = "fill_rect"
    /\ DrawCalls[1].x = 318 /\ DrawCalls[1].w = 2 /\ DrawCalls[1].h = 1
    /\ Len(Frames(bus)) = 8
    /\ Frames(bus)[5] = << Dc(0), SpiWrite(<< 42 >>), Dc(1), SpiWrite(<< 1, 62, 1, 63 >>) >>
    /\ Frames(bus)[8] = << Dc(1), SpiWrite(<< 61, 127 >>), SpiWrite(<< 61, 127 >>) >>

\* the steps of one iteration, in the order of the loop body
IterationOrder ==
    { << "start", "touch" >>, << "touch", "mode" >>, << "mode", "sensors" >>,
      << "sensors", "redraw" >>, << "redraw", "advance" >>, << "advance", "sleep" >>,
      << "sleep", "touch" >> }

\* C22: an iteration runs touch poll (with handle_touch), idle-timeout check,
\* sensor poll (exactly when more than 5000 ms lie between the top of the
\* iteration and last_update), redraw decision, auto-advance check and sleep,
\* in this order, each step touching only what is its own.  So the redraw
\* step leaves the current screen drawn, a touch of the same iteration
\* included, while a screen the auto-advance timer switched to stays undrawn
\* through the sleep and is drawn by the redraw step of the next iteration.
C22_IterationOrder ==
    /\ [][/\ pc' # pc => << pc, pc' >> \in IterationOrder
          /\ pc = "touch" => current_time' = now
          /\ pc # "touch" => UNCHANGED << current_time, last_touch_time, timeoutVars >>
          /\ pc # "mode" => (manual_mode' # manual_mode => pc = "touch")
          /\ pc = "sensors"
                 => (obs'.polled <=> ticks_diff(current_time, last_update) > 5000)
          /\ pc # "sensors" => UNCHANGED << last_update, sensor_data, motionVars >>
          /\ pc # "redraw" => UNCHANGED << last_drawn_screen, last_displayed_values >>
          /\ pc # "advance" => UNCHANGED last_screen_change
          /\ (pc # "touch" /\ pc # "advance") => UNCHANGED current_screen
          /\ pc # "sleep" => (now' # now => pc = "touch")]_vars
    /\ [](/\ pc = "advance"
                 => (last_drawn_screen = current_screen /\ ~screen_needs_redraw)
          /\ (pc = "sleep" /\ obs.advanced)
                 => (last_drawn_screen # current_screen /\ screen_needs_redraw)
          /\ (pc = "touch" /\ obs.advanced)
                 => (last_drawn_screen # current_screen /\ screen_needs_redraw))

\* the redraw step of the iteration after an auto-advance to Settings has just
\* drawn that screen: no touch was handled, the switch is one iteration old
C22_Witness ==
    /\ obs.step = "redraw" /\ obs.full /\ ~obs.handled /\ ~obs.advanced
    /\ current_screen = 2 /\ last_drawn_screen = 2
    /\ last_screen_change > 180000 /\ last_screen_change < current_time

\* C23: a poll result is passed to handle_touch exactly when it is a point
\* and differs from the result of the poll before it (None before the first
\* poll): a point repeated while the contact lasts is handled once, and after
\* a poll that returned None any point, the same one included, is handled
\* again; handle_touch runs nowhere else.
C23_RepeatSuppressed ==
    /\ [][pc = "touch"
              => /\ obs'.handled <=> (touch_pos' # None /\ touch_pos' # touch_pos)
                 /\ last_touch_pos' = touch_pos'
                 /\ ~obs'.handled
                        => UNCHANGED << current_screen, last_touch_time, manual_mode,
                                        screen_needs_redraw, timeoutVars >>]_vars
    /\ [](last_touch_pos = touch_pos)

\* the Settings tab still held one iteration after it was handled: the poll
\* returns the same point and handle_touch is not called
C23_Witness ==
    /\ obs.step = "touch" /\ ~obs.handled
    /\ touch_pos = << 200, 220 >> /\ last_touch_pos = << 200, 220 >>
    /\ current_screen = 2 /\ manual_mode /\ last_touch_time < now

\* C24: a poll invokes play_punishment_sound only if it read motion = 0 and
\* more than motion_timeout ms (as set at that poll) lie between the poll and
\* the later of start-up and the last poll that read motion = 1; no other step
\* invokes it.
C24_PunishOnlyAfterTimeout ==
    /\ obs.punish
           => /\ obs.polled /\ obs.motion = 0
              /\ obs.step = "sensors" => ticks_diff(now, obs.motion_at) > motion_timeout
    /\ obs.motion_at = last_motion_time

\* punished after the timeout was shortened to 10 s, less than 30 s after the
\* last poll that read motion = 1
C24_Witness ==
    /\ AfterPoll /\ obs.punish /\ obs.motion = 0
    /\ motion_timeout = 10000 /\ obs.motion_at > 0
    /\ ticks_diff(now, obs.motion_at) < 30000

\* the screen pixels of a text drawn at (call.x, call.y) with every set font
\* pixel as a block of scale x scale and 6 * scale pixels per character,
\* characters outside the table drawing nothing
ScaledText(font, scale) ==
    { << call.x + 6 * scale * (q[1] - 1) + scale * q[3] + q[4],
         call.y + scale * q[2] + q[5] >> :
        q \in { r \in (1..Len(call.text)) \X (0..6) \X (0..4)
                        \X (0..(scale - 1)) \X (0..(scale - 1)) :
                    /\ Upper(call.text[r[1]]) \in font
                    /\ Glyph(Upper(call.text[r[1]]))[r[2] + 1][r[3] + 1] = 1 } }

\* C25: draw_simple_text writes one screen pixel per set font pixel, each once,
\* and advances 6 pixels per character; draw_simple_text_2x writes a block of
\* 2 x 2 per set font pixel and advances 12; in both a character without a
\* glyph writes nothing and advances like any other.
C25_TextScale ==
    /\ call.op = "draw_simple_text"
           => /\ { << c[1], c[2] >> : c \in { bus[i].val : i \in 1..Len(bus) } }
                     = ScaledText({ "T", "1", "-" }, 1)
              /\ Len(bus) = Cardinality(ScaledText({ "T", "1", "-" }, 1))
    /\ call.op = "draw_simple_text_2x"
           => /\ { << c[1], c[2] >> : c \in { bus[i].val : i \in 1..Len(bus) } }
                     = ScaledText({ "T", "Y", "1", "-" }, 2)
              /\ Len(bus) = Cardinality(ScaledText({ "T", "Y", "1", "-" }, 2))

\* C26: on the Main screen, after the redraw step of an iteration that polled
\* the sensors and ran no full redraw, plant_health is within 1 point of the
\* health last drawn: a score the poll moved further was redrawn in this
\* iteration and last_displayed_values['plant_health'] set to it.
C26_HealthRedrawn ==
    (obs.step = "redraw" /\ obs.polled /\ ~obs.full /\ current_screen = 0)
        => Abs(sensor_data.plant_health - last_displayed_values.plant_health) <= 1

\* the two coordinates a range command frame carries
RangeOf(frame) ==
    << UnpackH(SubSeq(frame[4].val, 1, 2)), UnpackH(SubSeq(frame[4].val, 3, 4)) >>

\* C27: a fill_rect whose rectangle is on the screen after clipping (x >= 0,
\* y >= 0, w' >= 1, h' >= 1) writes exactly w' * h' colour words, each the two
\* bytes of the colour with the high byte first, as many as the window it
\* programmed has pixels, in one chip-select frame that raises the data line
\* once, before the first word.
C27_PixelCountIsArea ==
    call.op = "draws"
        => \A j \in 1..Len(EmittingCalls) :
               LET c == EmittingCalls[j]
                   frames == Frames(bus)
                   cols == RangeOf(frames[4 * j - 3])
                   rows == RangeOf(frames[4 * j - 2])
                   stream == frames[4 * j]
               IN  (c.op = "fill_rect" /\ c.x >= 0 /\ c.y >= 0
                    /\ ClippedW(c) >= 1 /\ ClippedH(c) >= 1)
                       => /\ Len(stream) = 1 + ClippedW(c) * ClippedH(c)
                          /\ ClippedW(c) * ClippedH(c)
                                 = (cols[2] - cols[1] + 1) * (rows[2] - rows[1] + 1)
                          /\ stream[1] = Dc(1)
                          /\ \A n \in 2..Len(stream) :
                                 stream[n] = SpiWrite(<< c.color \div 256, c.color % 256 >>)

\* a 3 x 2 rectangle at (318, 239), clipped to 2 x 1: two words in one frame
C27_Witness ==
    /\ call.op = "draws" /\ Len(DrawCalls) = 1
    /\ DrawCalls[1].op = "fill_rect" /\ DrawCalls[1].x = 318 /\ DrawCalls[1].y = 239
    /\ DrawCalls[1].w = 3 /\ DrawCalls[1].h = 2
    /\ Frames(bus)[4] = << Dc(1), SpiWrite(<< 61, 127 >>), SpiWrite(<< 61, 127 >>) >>
    /\ Len(bus) = 16 + 2 + 2 + 1

\* C28: for a coordinate on the screen pixel(x, y, c) issues the very events
\* of fill_rect(x, y, 1, 1, c), chip-select, data line and bytes alike: the
\* 16 events of a window of one pixel, then one frame with the colour word;
\* for a coordinate off the screen it issues nothing.
C28_PixelIsUnitFill ==
    call.op = "pixel"
        => IF 0 <= call.x /\ call.x < 320 /\ 0 <= call.y /\ call.y < 240
           THEN /\ bus = fill_rect(call.x, call.y, 1, 1, 65535)
                /\ Len(bus) = 16 + 4
                /\ SubSeq(bus, 1, 16) = set_window(call.x, call.y, call.x, call.y)
           ELSE bus = << >>

\* the pixel in the far corner of the screen
C28_Witness ==
    /\ call.op = "pixel" /\ call.x = 319 /\ call.y = 239
    /\ Len(bus) = 20 /\ bus[5] = SpiWrite(<< 1, 63, 1, 63 >>)
    /\ bus[11] = SpiWrite(<< 0, 239, 0, 239 >>)
    /\ SubSeq(bus, 17, 20) = << Cs(0), Dc(1), SpiWrite(<< 255, 255 >>), Cs(1) >>

\* the next thing init does after its i-th event that the controller can
\* notice or that takes time: a write, a reset edge, a wait (0: nothing yet)
Following(i) ==
    LET later == { j \in (i + 1)..Len(bus) : bus[j].op \in { "write", "reset", "delay" } }
    IN  IF later = {} THEN 0 ELSE CHOOSE j \in later : \A k \in later : j <= k

WaitFollows(i, ms) ==
    Following(i) # 0 => (bus[Following(i)].op = "delay" /\ bus[Following(i)].val >= ms)

OpcodeAt(i, cmd) == i > 1 /\ bus[i] = SpiWrite(<< cmd >>) /\ bus[i - 1] = Dc(0)

\* C29: in init the reset line going low and going high (each followed by
\* at least 100 ms), the software-reset opcode (150 ms), the sleep-out opcode
\* (120 ms) and the display-on opcode (100 ms) are each followed by their wait
\* before anything else is sent; init starts with the reset pulse when a reset
\* line is wired and with the software-reset opcode when not; display-on is
\* the last thing sent, and init takes at least the sum of its waits.
C29_InitWaits ==
    call.op = "init"
        => /\ \A i \in 1..Len(bus) :
                  /\ bus[i].op = "reset" => WaitFollows(i, 100)
                  /\ OpcodeAt(i, 1) => WaitFollows(i, 150)
                  /\ OpcodeAt(i, 17) => WaitFollows(i, 120)
                  /\ OpcodeAt(i, 41)
                         => /\ WaitFollows(i, 100)
                            /\ \A j \in (i + 1)..Len(bus) : bus[j].op # "write"
           /\ Following(0) # 0
                  => IF call.reset
                     THEN bus[Following(0)] = [ op |-> "reset", val |-> 0 ]
                     ELSE OpcodeAt(Following(0), 1)
           /\ \A i \in 1..Len(bus) : bus[i].op = "reset" => call.reset
           /\ call.done
                  => /\ \E i \in 1..Len(bus) : OpcodeAt(i, 41)
                     /\ bus[Len(bus)].op = "delay"
                     /\ now >= 150 + 120 + 100 + (IF call.reset THEN 200 ELSE 0)
                     /\ call.reset
                            => \E i, j \in 1..Len(bus) :
                                   /\ i < j
                                   /\ bus[i] = [ op |-> "reset", val |-> 0 ]
                                   /\ bus[j] = [ op |-> "reset", val |-> 1 ]
                                   /\ \E k \in 1..Len(bus) : j < k /\ OpcodeAt(k, 1)

\* init has finished on a display without a reset line, in exactly 370 ms:
\* the first thing sent was the software-reset opcode
C29_Witness ==
    /\ call.op = "init" /\ call.done /\ ~call.reset /\ now = 370
    /\ SubSeq(bus, 1, 5) = << Cs(0), Dc(0), SpiWrite(<< 1 >>), Cs(1),
                              [ op |-> "delay", val |-> 150 ] >>
    /\ bus[Len(bus) - 2] = SpiWrite(<< 41 >>)

\* this iteration's touch was handled on the Settings screen and landed on
\* one of its adjustment controls (a touch handled off the navigation bar
\* leaves the Settings screen shown only when it was shown before)
AdjustedThisIteration ==
    /\ obs.handled
    /\ touch_pos # None
    /\ current_screen = 2
    /\ TouchedControl(2, touch_pos[1], touch_pos[2]) # "none"

\* C30: a touch handled on an adjustment control of the Settings screen leaves
\* screen_needs_redraw set and the Settings screen current, whether or not it
\* changes motion_timeout_seconds; the two stay so up to the redraw step of
\* the same iteration, which draws the whole Settings screen.
C30_AdjustmentRedraws ==
    /\ [][(/\ pc = "touch" /\ pc' = "mode"
           /\ TouchIsNew(touch_pos')
           /\ TouchedControl(current_screen, touch_pos'[1], touch_pos'[2]) # "none")
              => /\ current_screen = 2
                 /\ current_screen' = 2
                 /\ screen_needs_redraw'
                 /\ AdjustedThisIteration']_vars
    /\ [](((pc = "mode" \/ pc = "sensors" \/ pc = "redraw") /\ AdjustedThisIteration)
              => screen_needs_redraw)
    /\ [][(pc = "redraw" /\ pc' = "advance" /\ AdjustedThisIteration)
              => /\ obs'.full
                 /\ ~obs'.partial
                 /\ current_screen' = 2
                 /\ last_drawn_screen' = 2
                 /\ ~screen_needs_redraw']_vars

\* the -5 button was touched at the lower limit of 5 s, the value stayed 5,
\* and the redraw step of that iteration has drawn the whole Settings screen
C30_Witness ==
    /\ pc = "advance"
    /\ AdjustedThisIteration
    /\ touch_pos = << 60, 110 >>
    /\ obs.secs = 5 /\ motion_timeout_seconds = 5
    /\ obs.full /\ last_drawn_screen = 2 /\ ~screen_needs_redraw

\* the sample pairs of a five-sample call whose raw values both lie inside
\* the band 100 < raw < 4000, and the point their integer mean maps to
BandPairs5 ==
    { i \in DOMAIN call.words :
        /\ InBand(call.words[i][1] \div 8)
        /\ InBand(call.words[i][2] \div 8) }

RECURSIVE BandSum5(_, _)
BandSum5(S, axis) ==
    IF S = {} THEN 0
    ELSE LET i == CHOOSE j \in S : TRUE
         IN  (call.words[i][axis] \div 8) + BandSum5(S \ { i }, axis)

\* C31: in the five-sample get_touch a sample pair with a raw value outside
\* 100 < raw < 4000 is discarded: the returned point is the one computed from
\* the pairs inside the band alone, and None when no pair is inside.
C31_OutOfBandDiscarded ==
    (call.op = "get_touch_5" /\ call.irq = 0)
        => ret = IF BandPairs5 = {} THEN None
                 ELSE << ToScreen(BandSum5(BandPairs5, 1) \div Cardinality(BandPairs5),
                                  WIDTH),
                         ToScreen(BandSum5(BandPairs5, 2) \div Cardinality(BandPairs5),
                                  HEIGHT) >>

\* C32: current_screen is always 0 (Main), 1 (Detail) or 2 (Settings);
\* Detail is entered only by a handled touch on a widget of the Main screen;
\* the auto-advance timer takes Main to Settings and every other screen to
\* Main, never to Detail; a handled touch while Detail is shown leaves Detail.
C32_DetailTransient ==
    /\ [](current_screen = 0 \/ current_screen = 1 \/ current_screen = 2)
    /\ [][(current_screen # 1 /\ current_screen' = 1)
              => /\ pc = "touch"
                 /\ obs'.handled
                 /\ current_screen = 0
                 /\ ~InNavBar(touch_pos'[2])
                 /\ MainWidgetTouched(touch_pos'[1], touch_pos'[2])]_vars
    /\ [][(pc = "advance" /\ obs'.advanced)
              => /\ current_screen' # 1
                 /\ current_screen' = IF current_screen = 0 THEN 2 ELSE 0]_vars
    /\ [][(pc = "touch" /\ pc' = "mode" /\ obs'.handled /\ current_screen = 1)
              => current_screen' # 1]_vars

\* the auto-advance timer has fired while the Detail screen was shown and has
\* switched to Main
C32_Witness ==
    /\ pc = "sleep" /\ obs.advanced
    /\ last_drawn_screen = 1 /\ current_screen = 0 /\ screen_needs_redraw

\* C33: on every screen a handled touch with y >= 200 sets current_screen to
\* Main when x < 160 and to Settings when x >= 160, whatever the screen shows
\* there, leaves motion_timeout_seconds and motion_timeout alone, and sets
\* screen_needs_redraw exactly when the screen changed (a flag already set
\* stays set).
C33_NavBarFirst ==
    [][(/\ pc = "touch" /\ pc' = "mode"
        /\ TouchIsNew(touch_pos')
        /\ touch_pos'[2] >= 200)
          => /\ current_screen' = IF touch_pos'[1] < 160 THEN 0 ELSE 2
             /\ motion_timeout_seconds' = motion_timeout_seconds
             /\ motion_timeout' = motion_timeout
             /\ screen_needs_redraw'
                    = (screen_needs_redraw \/ current_screen' # current_screen)
             /\ manual_mode']_vars

\* a touch on the Settings tab while the Detail screen was shown has switched
\* to Settings, where a touch above the bar would have gone back to Main
C33_Witness ==
    /\ pc = "mode" /\ obs.handled
    /\ touch_pos = << 160, 239 >>
    /\ last_drawn_screen = 1 /\ current_screen = 2 /\ screen_needs_redraw

\* C34: current_screen is changed only by the touch step and by the
\* auto-advance step, and each change leaves screen_needs_redraw set; a redraw
\* step that finds the flag set or the drawn screen out of date draws the
\* whole current screen; so at the sleep point of an iteration
\* last_drawn_screen differs from current_screen only if the auto-advance
\* timer changed the screen in that iteration, and the redraw step of the
\* next iteration draws it.
C34_ChangeIsRedrawn ==
    /\ []((pc = "sleep" /\ last_drawn_screen # current_screen) => obs.advanced)
    /\ []((pc = "advance" \/ pc = "sleep") /\ ~obs.advanced
              => (last_drawn_screen = current_screen /\ ~screen_needs_redraw))
    /\ [][current_screen' # current_screen
              => /\ screen_needs_redraw'
                 /\ (pc = "touch" \/ pc = "advance")]_vars
    /\ []((pc = "mode" \/ pc = "sensors" \/ pc = "redraw")
              /\ last_drawn_screen # current_screen
              => screen_needs_redraw)
    /\ [][(pc = "redraw" /\ pc' = "advance"
           /\ (screen_needs_redraw \/ last_drawn_screen # current_screen))
              => /\ obs'.full
                 /\ current_screen' = current_screen
                 /\ last_drawn_screen' = current_screen]_vars

\* the timer switched from Main to Settings in an earlier iteration (no touch
\* has been handled since start-up) and the Settings screen has been drawn
C34_Witness ==
    /\ pc = "advance" /\ obs.full
    /\ ~manual_mode /\ last_touch_time = 0 /\ last_screen_change > 0
    /\ current_screen = 2 /\ last_drawn_screen = 2 /\ ~screen_needs_redraw

\* C35: right after a full redraw in run_ui last_drawn_screen equals
\* current_screen, screen_needs_redraw and data_needs_update are both false,
\* and last_displayed_values holds exactly the keys light, temperature,
\* humidity and plant_health, each with the value sensor_data has for it.
C35_AfterFullRedraw ==
    (pc = "advance" /\ obs.full)
        => /\ last_drawn_screen = current_screen
           /\ ~screen_needs_redraw
           /\ ~data_needs_update
           /\ DOMAIN last_displayed_values
                  = { "light", "temperature", "humidity", "plant_health" }
           /\ \A key \in { "light", "temperature", "humidity", "plant_health" } :
                  last_displayed_values[key] = sensor_data[key]

\* a full redraw of the Settings screen in an iteration whose sensor poll had
\* just changed the temperature from 22.5 to 22.0 and set data_needs_update
C35_Witness ==
    /\ pc = "advance" /\ obs.full /\ obs.polled
    /\ current_screen = 2
    /\ sensor_data.temperature = 220 /\ last_displayed_values.temperature = 220
    /\ ~data_needs_update

\* C36: a handled touch sets manual_mode and stamps last_touch_time;
\* manual_mode is cleared only by the idle check, and only more than 60 000 ms
\* after the last handled touch; the auto-advance timer changes current_screen
\* only outside manual mode. So within 60 000 ms of the last handled touch
\* current_screen is changed by handled touches only.
C36_TouchHoldsTimer ==
    /\ [][(pc = "touch" /\ pc' = "mode" /\ obs'.handled)
              => (manual_mode' /\ last_touch_time' = now')]_vars
    /\ [][(manual_mode /\ ~manual_mode')
              => (pc = "mode" /\ now - last_touch_time > 60000)]_vars
    /\ [][current_screen' # current_screen
              => IF pc = "touch" THEN obs'.handled
                 ELSE /\ pc = "advance"
                      /\ ~manual_mode
                      /\ now - last_touch_time > 60000]_vars
    /\ []((last_touch_time > 0 /\ now - last_touch_time <= 60000) => manual_mode)

\* the timer has switched the screen after a touch handled at 40 000 ms had
\* held it off: manual mode has expired and the touch is over 60 000 ms old
C36_Witness ==
    /\ pc = "sleep" /\ obs.advanced
    /\ last_touch_time = 40000
    /\ ~manual_mode
    /\ now - last_touch_time > 60000
    /\ last_screen_change = now

\* C37: audio_played is set by the poll that plays the punishment cue and
\* cleared only by a poll that reads motion = 1; a change of the motion
\* timeout on the Settings screen leaves it alone; so the cue is played at
\* most once between two polls that read motion = 1, however the timeout is
\* raised or lowered in between.
C37_AdjustingKeepsLatch ==
    /\ [](obs.punish_run <= 1)
    /\ [][(audio_played /\ ~audio_played')
              => (pc = "sensors" /\ obs'.polled /\ obs'.motion = 1)]_vars
    /\ [][(pc = "sensors" /\ obs'.punish) => (~audio_played /\ audio_played')]_vars
    /\ [][motion_timeout' # motion_timeout
              => (pc = "touch" /\ audio_played' = audio_played)]_vars

\* a poll that finds the timeout exceeded and the check due, in an iteration
\* whose touch raised the timeout after the cue had been played: nothing is
\* played
C37_Witness ==
    /\ AfterPoll /\ obs.motion = 0 /\ obs.timed_out /\ obs.check_due
    /\ ~obs.punish /\ obs.punish_run = 1 /\ audio_played
    /\ obs.handled /\ motion_timeout_seconds > obs.secs

\* C38: in every state between two handlers motion_timeout, the milliseconds
\* the punishment check compares with, is 1000 times motion_timeout_seconds,
\* the seconds shown and adjusted on the Settings screen, and the value lies
\* between 5 and 300 seconds.
C38_TimeoutInStep ==
    /\ motion_timeout = 1000 * motion_timeout_seconds
    /\ 5 <= motion_timeout_seconds /\ motion_timeout_seconds <= 300

\* the 60 s preset has just been touched at 30 s: both fields have moved
C38_Witness ==
    /\ pc = "mode" /\ obs.handled /\ touch_pos = << 170, 150 >>
    /\ obs.secs = 30
    /\ motion_timeout_seconds = 60 /\ motion_timeout = 60000

\* the level of a chip-select line ("cs": display, "tcs": touch) after the
\* i-th event of the iteration; both lines are high when the iteration starts
LineLevel(line, i) ==
    LET set == { j \in 1..i : bus[j].op = line }
    IN  IF set = {} THEN 1
        ELSE bus[CHOOSE j \in set : \A k \in set : k <= j].val

\* C39: in the running loop the display chip-select and the touch chip-select
\* are never low together; the touch controller is selected, written and read
\* only while the display chip-select is high, and the display is selected
\* and written only while the touch chip-select is high; between two calls
\* both lines are high.
C39_BusSerialized ==
    call.op = "loop"
        => /\ \A i \in 1..Len(bus) :
                  /\ ~(LineLevel("cs", i) = 0 /\ LineLevel("tcs", i) = 0)
                  /\ (bus[i].op = "tcs" \/ bus[i].op = "twrite" \/ bus[i].op = "tread")
                         => LineLevel("cs", i) = 1
                  /\ (bus[i].op = "cs" \/ bus[i].op = "dc" \/ bus[i].op = "write")
                         => LineLevel("tcs", i) = 1
                  /\ (bus[i].op = "twrite" \/ bus[i].op = "tread")
                         => LineLevel("tcs", i) = 0
                  /\ bus[i].op = "write" => LineLevel("cs", i) = 0
           /\ call.todo = << >>
                  => (LineLevel("cs", Len(bus)) = 1 /\ LineLevel("tcs", Len(bus)) = 1)

\* a pixel stream is on its way to the display in an iteration that sampled
\* the touch controller first: display selected, touch released
C39_Witness ==
    /\ call.op = "loop" /\ Len(bus) > 24
    /\ bus[1] = [ op |-> "tcs", val |-> 0 ]
    /\ bus[Len(bus)].op = "write"
    /\ LineLevel("cs", Len(bus)) = 0 /\ LineLevel("tcs", Len(bus)) = 1

====
